---------------------------- MODULE Spec2Model ----------------------------
(***************************************************************************)
(* Model of the `actually` orchestrator (mwcz/actually): the Conductor's   *)
(* two-phase run (src/conductor.rs `run`), the interactive strategy review *)
(* loop (`interactive_strategy_review`), the concurrent implementation     *)
(* fan-out (`run_instance`), and the strategy text functions of            *)
(* src/strategy.rs.                                                        *)
(*                                                                         *)
(* Text is modelled as a sequence of one-character strings, so that the    *)
(* scanners, trims and template substitutions of the source are computed   *)
(* character by character.  Vec positions of the source are 0-based; the   *)
(* sequences here are 1-based, so the record at Vec index i is element     *)
(* i + 1 and an instance_id i result sits at position i + 1.               *)
(***************************************************************************)
EXTENDS Integers, Sequences, FiniteSets, TLC

(***************************************************************************)
(* String literals of the source, character by character.                  *)
(***************************************************************************)
STRATEGY_PROMPT_TEMPLATE ==
    <<"F","o","r"," ","t","h","e"," ","f","o","l","l","o","w","i","n","g"," ","t","a","s","k",
      ","," ","d","e","s","c","r","i","b","e"," ","O","N","L","Y"," ","y","o","u","r"," ","i",
      "m","p","l","e","m","e","n","t","a","t","i","o","n"," ","p","l","a","n"," ","i","n"," ",
      "2","-","4"," ","s","e","n","t","e","n","c","e","s","."," ","D","o"," ","n","o","t"," ",
      "i","m","p","l","e","m","e","n","t"," ","a","n","y","t","h","i","n","g"," ","y","e","t",
      ".","\n","\n","T","a","s","k",":"," ","{","t","a","s","k","}","\n","\n","F","o","r","m",
      "a","t","t","i","n","g",":"," ","U","s","i","n","g"," ","M","a","r","k","d","o","w","n",
      ","," ","p","u","t"," ","b","o","l","d"," ","m","a","r","k","e","r","s"," ","o","n"," ",
      "t","h","e"," ","m","a","i","n"," ","f","e","a","t","u","r","e","s"," ","o","f"," ","y",
      "o","u","r"," ","a","p","p","r","o","a","c","h",","," ","a","n","d"," ","w","r","a","p",
      " ","a","n","y"," ","c","o","d","e"," ","s","n","i","p","p","e","t","s"," ","i","n"," ",
      "b","a","c","k","t","i","c","k","s",".","\n","\n","R","e","p","l","y"," ","w","i","t","h",
      " ","e","x","a","c","t","l","y"," ","t","h","i","s"," ","f","o","r","m","a","t",":","\n",
      "S","T","R","A","T","E","G","Y",":"," ","<","y","o","u","r"," ","a","p","p","r","o","a",
      "c","h"," ","i","n"," ","2","-","4"," ","s","e","n","t","e","n","c","e","s",">","\n","\n",
      "{","e","x","c","l","u","s","i","o","n","s","}">>

EXCLUSION_HEADER ==
    <<"Y","o","u"," ","M","U","S","T"," ","s","u","g","g","e","s","t"," ","a"," ","n","o","v",
      "e","l"," ","a","p","p","r","o","a","c","h"," ","U","T","T","E","R","L","Y"," ","D","I",
      "F","F","E","R","E","N","T"," ","f","r","o","m"," ","y","o","u","r"," ","c","o","m","p",
      "e","t","i","t","o","r","s"," ","w","h","i","l","e"," ","s","t","i","l","l"," ","s","a",
      "t","i","s","f","y","i","n","g"," ","t","h","e"," ","t","a","s","k","."," ","T","h","e",
      " ","*","*","b","o","l","d","e","d","*","*"," ","t","e","x","t"," ","i","n"," ","e","a",
      "c","h"," ","a","p","p","r","o","a","c","h"," ","r","e","p","r","e","s","e","n","t","s",
      " ","t","h","e"," ","k","e","y"," ","q","u","a","l","i","t","i","e","s"," ","y","o","u",
      " ","m","u","s","t"," ","a","v","o","i","d","."," ","Y","o","u","r"," ","c","o","m","p",
      "e","t","i","t","o","r","s"," ","a","r","e"," ","u","s","i","n","g"," ","t","h","e","s",
      "e"," ","a","p","p","r","o","a","c","h","e","s",":">>

IMPLEMENTATION_PROMPT_TEMPLATE ==
    <<"I","m","p","l","e","m","e","n","t"," ","t","h","e"," ","f","o","l","l","o","w","i","n",
      "g"," ","t","a","s","k"," ","u","s","i","n","g"," ","t","h","e"," ","s","p","e","c","i",
      "f","i","e","d"," ","s","t","r","a","t","e","g","y",".","\n","\n","T","a","s","k",":"," ",
      "{","t","a","s","k","}","\n","\n","Y","O","U","R"," ","S","T","R","A","T","E","G","Y"," ",
      "(","y","o","u"," ","m","u","s","t"," ","f","o","l","l","o","w"," ","t","h","i","s",")",
      ":","\n","{","s","t","r","a","t","e","g","y","}","\n","\n","{","e","x","c","l","u","s",
      "i","o","n","s","}","\n","\n","P","r","o","c","e","e","d"," ","w","i","t","h"," ","i","m",
      "p","l","e","m","e","n","t","a","t","i","o","n",".">>

FORBIDDEN_HEADER ==
    <<"F","O","R","B","I","D","D","E","N"," ","A","P","P","R","O","A","C","H","E","S"," ","(",
      "d","o"," ","n","o","t"," ","u","s","e"," ","t","h","e","s","e",")",":">>

STRATEGY_MARKER ==
    <<"S","T","R","A","T","E","G","Y",":">>

TASK_PLACEHOLDER ==
    <<"{","t","a","s","k","}">>

STRATEGY_PLACEHOLDER ==
    <<"{","s","t","r","a","t","e","g","y","}">>

EXCLUSIONS_PLACEHOLDER ==
    <<"{","e","x","c","l","u","s","i","o","n","s","}">>

FAILED_PREFIX ==
    <<"[","F","A","I","L","E","D","]"," ">>

SDK_ERROR_PREFIX ==
    <<"C","l","a","u","d","e"," ","C","o","d","e"," ","S","D","K"," ","e","r","r","o","r",":",
      " ">>

PROMPT_SECTION ==
    <<"=","=","="," ","P","R","O","M","P","T"," ","=","=","=","\n">>

SESSION_SECTION ==
    <<"\n","\n","=","=","="," ","S","E","S","S","I","O","N"," ","=","=","=","\n">>

STREAM_ERROR_SECTION ==
    <<"\n","=","=","="," ","E","R","R","O","R"," ","=","=","=","\n","S","t","r","e","a","m"," ",
      "e","r","r","o","r",":"," ">>

WORKSPACE_ERROR_PREFIX ==
    <<"F","a","i","l","e","d"," ","t","o"," ","c","r","e","a","t","e"," ","w","o","r","k","s",
      "p","a","c","e"," ","d","i","r","e","c","t","o","r","y",":"," ">>

WORKSPACE_NAME_PREFIX ==
    <<"c","l","a","u","d","i","s","s","e","n","t","-">>

WORKSPACE_NAME_INFIX ==
    <<"-","i","n","s","t","a","n","c","e","-">>

DRY_RUN_PREFIX ==
    <<"[","D","R","Y"," ","R","U","N","]"," ","S","t","r","a","t","e","g","y"," ">>

DRY_RUN_SUFFIX ==
    <<" ","w","o","u","l","d"," ","b","e"," ","g","e","n","e","r","a","t","e","d"," ","h","e",
      "r","e">>

EXTRACT_ERROR_PREFIX ==
    <<"F","a","i","l","e","d"," ","t","o"," ","e","x","t","r","a","c","t"," ","s","t","r","a",
      "t","e","g","y",":"," ">>

ERROR_PREFIX ==
    <<"E","r","r","o","r",":"," ">>

GENERATE_ERROR_PREFIX ==
    <<"F","a","i","l","e","d"," ","t","o"," ","g","e","n","e","r","a","t","e"," ","s","t","r",
      "a","t","e","g","y",":"," ">>

EDIT_ERROR_PREFIX ==
    <<"F","a","i","l","e","d"," ","t","o"," ","c","r","e","a","t","e"," ","a","g","e","n","t",
      " ","w","i","t","h"," ","e","d","i","t","e","d"," ","s","t","r","a","t","e","g","y",":",
      " ">>

CHAT_TRANSCRIPT_PREFIX ==
    <<"R","e","v","i","s","e","d"," ","v","i","a"," ","c","h","a","t",":"," ">>

JOIN_ERROR_PREFIX ==
    <<"T","a","s","k"," ","j","o","i","n"," ","e","r","r","o","r",":"," ">>

CREATE_WORKSPACE_ERROR_PREFIX ==
    <<"F","a","i","l","e","d"," ","t","o"," ","c","r","e","a","t","e"," ","w","o","r","k","s",
      "p","a","c","e",":"," ">>

STRATEGY_SELECTION_SECTION ==
    <<"=","=","="," ","S","T","R","A","T","E","G","Y"," ","S","E","L","E","C","T","I","O","N",
      " ","=","=","=","\n">>

ERROR_SECTION ==
    <<"\n","\n","=","=","="," ","E","R","R","O","R"," ","=","=","=","\n">>

SESSION_REPORTED_FAILURE ==
    <<"S","e","s","s","i","o","n"," ","r","e","p","o","r","t","e","d"," ","f","a","i","l","u",
      "r","e">>

EDITOR_HEADER_1 ==
    <<"#"," ","E","d","i","t"," ","t","h","e"," ","s","t","r","a","t","e","g","y"," ","b","e",
      "l","o","w","."," ","L","i","n","e","s"," ","s","t","a","r","t","i","n","g"," ","w","i",
      "t","h"," ","#"," ","a","r","e"," ","i","g","n","o","r","e","d",".">>

EDITOR_HEADER_2 ==
    <<"#"," ","S","a","v","e"," ","a","n","d"," ","e","x","i","t"," ","t","o"," ","a","p","p",
      "l","y"," ","c","h","a","n","g","e","s",","," ","o","r"," ","e","x","i","t"," ","w","i",
      "t","h","o","u","t"," ","s","a","v","i","n","g"," ","t","o"," ","c","a","n","c","e","l",
      ".">>

SPAWN_CLAUDE_ERROR_PREFIX ==
    <<"F","a","i","l","e","d"," ","t","o"," ","s","p","a","w","n"," ","c","l","a","u","d","e",
      ":"," ">>

CLAUDE_EXIT_PREFIX ==
    <<"C","l","a","u","d","e"," ","e","x","i","t","e","d"," ","w","i","t","h"," ","s","t","a",
      "t","u","s",":"," ">>

READ_REVISED_ERROR_PREFIX ==
    <<"F","a","i","l","e","d"," ","t","o"," ","r","e","a","d"," ","r","e","v","i","s","e","d",
      " ","s","t","r","a","t","e","g","y",":"," ">>

(***************************************************************************)
(* std::str helpers used by the source.                                    *)
(***************************************************************************)
MinOf(a, b) == IF a <= b THEN a ELSE b

\* the character U+0060 (a string of the module cannot hold it)
BACKTICK == "backtick"

\* char::is_whitespace, on the characters the model uses
IsWhitespace(c) == c \in {" ", "\n", "\t", "\r"}

\* whether pat occurs in s at position i
MatchesAt(s, pat, i) == s[i] = pat[1] /\ SubSeq(s, i, i + Len(pat) - 1) = pat

\* str::find: 1-based position of the first occurrence of pat in s, 0 if none
Find(s, pat) ==
    LET Starts == 1..(Len(s) - Len(pat) + 1)
    IN  IF \E i \in Starts : MatchesAt(s, pat, i)
        THEN CHOOSE i \in Starts :
                MatchesAt(s, pat, i) /\ \A j \in 1..(i - 1) : ~MatchesAt(s, pat, j)
        ELSE 0

\* str::contains
Contains(s, pat) == Find(s, pat) # 0

\* str::replace: every non-overlapping occurrence, left to right
RECURSIVE Replace(_, _, _)
Replace(s, from, to) ==
    LET i == Find(s, from)
    IN  IF i = 0 THEN s
        ELSE SubSeq(s, 1, i - 1) \o to \o Replace(SubSeq(s, i + Len(from), Len(s)), from, to)

\* 1-based position of the first character of s that is no whitespace, 0 if none
FirstInk(s) ==
    IF \E i \in 1..Len(s) : ~IsWhitespace(s[i])
    THEN CHOOSE i \in 1..Len(s) :
            ~IsWhitespace(s[i]) /\ \A j \in 1..(i - 1) : IsWhitespace(s[j])
    ELSE 0

\* 1-based position of the last character of s that is no whitespace, 0 if none
LastInk(s) ==
    IF \E i \in 1..Len(s) : ~IsWhitespace(s[i])
    THEN CHOOSE i \in 1..Len(s) :
            ~IsWhitespace(s[i]) /\ \A j \in (i + 1)..Len(s) : IsWhitespace(s[j])
    ELSE 0

\* str::trim
Trim(s) == IF FirstInk(s) = 0 THEN <<>> ELSE SubSeq(s, FirstInk(s), LastInk(s))

\* str::trim_start
TrimStart(s) == IF FirstInk(s) = 0 THEN <<>> ELSE SubSeq(s, FirstInk(s), Len(s))

\* a line's content without the "\r" of a "\r\n" ending
StripCR(l) == IF l # <<>> /\ l[Len(l)] = "\r" THEN SubSeq(l, 1, Len(l) - 1) ELSE l

\* str::lines: the lines of s without their terminators; a final "\n" opens no new line
RECURSIVE Lines(_)
Lines(s) ==
    IF s = <<>> THEN <<>>
    ELSE LET i == Find(s, <<"\n">>)
         IN  IF i = 0 THEN <<s>>
             ELSE <<StripCR(SubSeq(s, 1, i - 1))>> \o Lines(SubSeq(s, i + 1, Len(s)))

\* [String]::join
RECURSIVE Join(_, _)
Join(parts, sep) ==
    IF parts = <<>> THEN <<>>
    ELSE IF Len(parts) = 1 THEN parts[1]
    ELSE parts[1] \o sep \o Join(Tail(parts), sep)

\* Iterator::take on a sequence
Take(s, k) == SubSeq(s, 1, MinOf(k, Len(s)))

\* Iterator::skip on a sequence
Skip(s, k) == SubSeq(s, k + 1, Len(s))

Digit(d) == <<"0", "1", "2", "3", "4", "5", "6", "7", "8", "9">>[d + 1]

\* Display of a usize: its decimal digits
RECURSIVE Decimal(_)
Decimal(k) == IF k < 10 THEN <<Digit(k)>> ELSE Decimal(k \div 10) \o <<Digit(k % 10)>>

\* Option<T>
None == [some |-> FALSE]

Some(v) == [some |-> TRUE, value |-> v]

(***************************************************************************)
(* src/strategy.rs                                                         *)
(***************************************************************************)
\* the scan loop of Strategy::extract_formatting, from character i on
RECURSIVE extract_scan(_, _, _, _, _, _)
extract_scan(text, i, in_bold, current_bold, raw, highlights) ==
    IF i > Len(text) THEN [raw |-> raw, highlights |-> highlights]
    ELSE IF text[i] = "*" /\ i < Len(text) /\ text[i + 1] = "*" THEN
        IF in_bold
        THEN LET phrase == Trim(current_bold)
             IN  extract_scan(text, i + 2, FALSE, <<>>, raw,
                              IF phrase # <<>> THEN Append(highlights, phrase) ELSE highlights)
        ELSE extract_scan(text, i + 2, TRUE, current_bold, raw, highlights)
    ELSE IF text[i] = BACKTICK THEN
        extract_scan(text, i + 1, in_bold, current_bold, raw, highlights)
    ELSE
        extract_scan(text, i + 1, in_bold,
                     IF in_bold THEN Append(current_bold, text[i]) ELSE current_bold,
                     Append(raw, text[i]), highlights)

extract_formatting(text) == extract_scan(text, 1, FALSE, <<>>, <<>>, <<>>)

Strategy_parse(text) ==
    LET f == extract_formatting(text)
    IN  [markdown |-> text, raw |-> f.raw, highlights |-> f.highlights]

Strategy_failed(error_msg) ==
    [markdown |-> FAILED_PREFIX \o error_msg,
     raw |-> FAILED_PREFIX \o error_msg,
     highlights |-> <<>>]

\* the numbered list "1. s1", "2. s2", ... both prompt builders produce
NumberedLines(items) ==
    [k \in 1..Len(items) |-> Decimal(k) \o <<".", " ">> \o items[k]]

\* a build_strategy_prompt that puts the exclusion header under an empty list too
build_strategy_prompt_header_always(task, existing_strategies) ==
    LET exclusions ==
            Join(<<EXCLUSION_HEADER>> \o NumberedLines(existing_strategies), <<"\n">>)
    IN  Replace(Replace(STRATEGY_PROMPT_TEMPLATE, TASK_PLACEHOLDER, task),
                EXCLUSIONS_PLACEHOLDER, exclusions)

build_strategy_prompt(task, existing_strategies) ==
    LET exclusions ==
            IF existing_strategies = <<>> THEN <<>>
            ELSE Join(<<EXCLUSION_HEADER>> \o NumberedLines(existing_strategies), <<"\n">>)
    IN  Replace(Replace(STRATEGY_PROMPT_TEMPLATE, TASK_PLACEHOLDER, task),
                EXCLUSIONS_PLACEHOLDER, exclusions)

build_implementation_prompt(task, strategy, excluded_strategies) ==
    LET exclusions ==
            IF excluded_strategies = <<>> THEN <<>>
            ELSE Join(<<FORBIDDEN_HEADER>> \o NumberedLines(excluded_strategies), <<"\n">>)
    IN  Replace(Replace(Replace(IMPLEMENTATION_PROMPT_TEMPLATE, TASK_PLACEHOLDER, task),
                        STRATEGY_PLACEHOLDER, strategy),
                EXCLUSIONS_PLACEHOLDER, exclusions)

\* .take(4) of parse_strategy
MAX_STRATEGY_LINES == 4

\* .take(500) of parse_strategy
FALLBACK_CHARS == 500

\* a parse_strategy that trims the strategy line at its start only
parse_strategy_trim_start(response) ==
    LET idx == Find(response, STRATEGY_MARKER)
        after_prefix == SubSeq(response, idx + Len(STRATEGY_MARKER), Len(response))
        ls == Lines(after_prefix)
        strategy == TrimStart(IF ls # <<>> THEN ls[1] ELSE after_prefix)
        text == IF idx # 0
                THEN IF strategy = <<>>
                     THEN Trim(Join(Take(Skip(ls, 1), MAX_STRATEGY_LINES), <<" ">>))
                     ELSE strategy
                ELSE Trim(Take(response, FALLBACK_CHARS))
    IN  Strategy_parse(text)

\* a parse_strategy whose fallback keeps one character less
parse_strategy_short_fallback(response) ==
    LET idx == Find(response, STRATEGY_MARKER)
        after_prefix == SubSeq(response, idx + Len(STRATEGY_MARKER), Len(response))
        ls == Lines(after_prefix)
        strategy == Trim(IF ls # <<>> THEN ls[1] ELSE after_prefix)
        text == IF idx # 0
                THEN IF strategy = <<>>
                     THEN Trim(Join(Take(Skip(ls, 1), MAX_STRATEGY_LINES), <<" ">>))
                     ELSE strategy
                ELSE Trim(Take(response, FALLBACK_CHARS - 1))
    IN  Strategy_parse(text)

parse_strategy(response) ==
    LET idx == Find(response, STRATEGY_MARKER)
        after_prefix == SubSeq(response, idx + Len(STRATEGY_MARKER), Len(response))
        ls == Lines(after_prefix)
        strategy == Trim(IF ls # <<>> THEN ls[1] ELSE after_prefix)
        text == IF idx # 0
                THEN IF strategy = <<>>
                     THEN Trim(Join(Take(Skip(ls, 1), MAX_STRATEGY_LINES), <<" ">>))
                     ELSE strategy
                ELSE Trim(Take(response, FALLBACK_CHARS))
    IN  Strategy_parse(text)

(***************************************************************************)
(* Bounds of the model and the inputs the environment can supply.          *)
(***************************************************************************)
\* largest instance count n a run is started with
MaxN == 2

\* largest n of the runs explored up to the end of Phase 1 only
MaxCollectN == 3

\* largest n of the headless runs explored on their own
MaxHeadlessN == 2

\* largest n of the interactive runs explored up to the return from review only
MaxReviewN == 1

\* largest number of records the add action may grow the vector to
MaxRecords == 2

\* largest number of record-changing review actions (edit, add, chat revision, delete)
MaxReviewOps == 1

\* the task text given on the command line
TaskPrompt == <<"T">>

\* the run directory main hands to run
RunDir == <<"o", "u", "t">>

\* the seconds-since-epoch the workspace name embeds
Timestamp == <<"1", "7">>

\* texts the agent can answer a strategy query with (each message text ends with "\n")
AgentResponses ==
    { <<"S","T","R","A","T","E","G","Y",":"," ","U","s","e"," ","*","*","L","R","U","*","*","\n">>,
      <<"U","s","e"," ",BACKTICK,"d","i","s","k",BACKTICK,"\n">> }

\* messages of the SDK errors a session can fail with
SdkErrors == { <<"n","o"," ",BACKTICK,"k","e","y",BACKTICK>> }

\* messages of the I/O errors of the workspace, editor, clipboard and chat subprocess
IoErrors == { <<"i","o">> }

\* text of the messages an implementation session streams
ImplOutput == <<"d","o","n","e","\n">>

\* Display of the JoinError of a panicked task
JoinErrors == { <<"p","a","n","i","c">> }

\* strategy texts the operator can type in the editor
EditorTexts == { <<"#","c","\n"," ","E"," ","*","*","e","*","*","\n">>, <<"#","x","\n">> }

\* contents the chat session can leave in the scratch file
ChatFiles == { <<"U","s","e"," ","*","*","C","*","*","\n">>, <<" ","\n">> }

\* exit codes of a chat subprocess that did not succeed
ChatExitCodes == { 1 }

(***************************************************************************)
(* State.                                                                  *)
(***************************************************************************)
VARIABLES
    n,               \* run's parameter n (Args::num_instances)
    dry_run,         \* run's parameter dry_run
    interactive,     \* run's parameter interactive (!args.headless)
    pc,              \* where run/main stands: "collect", "review", "phase2", "join", "done"
    i,               \* loop index of Phase 1
    strategy_infos,  \* Vec<StrategyInfo>
    selected,        \* list_state.selected(), 0-based; Len(strategy_infos) is the Accept row
    status_message,  \* Option<String>, as the parts of the format string
    show_help_popup, \* bool
    clipboard,       \* whether arboard::Clipboard::new() gave a clipboard
    tui_active,      \* raw mode and alternate screen are on
    handles,         \* the spawned Phase-2 tasks: captured values and output
    completed,       \* instance ids of the finished tasks, in completion order
    results,         \* the Vec<InstanceResult> run returns
    written,         \* instance ids main wrote a session log for; strategies file written
    existing_log,    \* history: existing_strategies of every strategy query built by
                     \* build_strategy_prompt (Phase 1, then 'o'), in order
    origin,          \* history: for each record, the Phase-1 step that collected the record
                     \* of its slot, -1 for a slot the add action created
    review_exit,     \* history: how review ended: "none", "quit", "accept"
    review_ops,      \* number of record-changing actions of the review in progress
    query_count,     \* history: number of query_strategy calls
    ws_created,      \* history: instance ids Workspace::create succeeded for
    impl_started,    \* history: instance ids run_implementation was called for
    parse_text,      \* the text given to a call of a function of strategy.rs
    parse_fn,        \* the function called on it: "none", "Strategy::parse", "parse_strategy"
    parse_result,    \* the Strategy the call returned
    wrap_text,       \* the Text (lines of styled spans) given to wrap_styled_text
    wrap_width,       \* the max_width given with it
    blank_line,      \* the Line that Line::from("") builds: no span, or one empty span
    wrapped,         \* the Texts returned: by the call on wrap_text, then by the call on
                     \* each returned Text in turn
    prompt_task,     \* the task given to a prompt builder of strategy.rs
    prompt_existing, \* the existing strategies given with it
    built_prompt,    \* the prompt the builder returned
    md_text,         \* the markdown given to markdown_to_styled_text
    styled_text,     \* the Text it returned
    log_text,        \* the string given to a truncation, each character with its UTF-8 length
    log_limit,       \* the limit given with it (max_len, list_width)
    truncated        \* what truncate_for_log and the list-row truncation did with them

vars == <<n, dry_run, interactive, pc, i, strategy_infos, selected, status_message,
          show_help_popup, clipboard, tui_active, handles, completed, results, written,
          existing_log, origin, review_exit, review_ops, query_count, ws_created,
          impl_started, parse_text, parse_fn, parse_result, wrap_text, wrap_width,
          blank_line, wrapped, prompt_task, prompt_existing, built_prompt, md_text,
          styled_text, log_text, log_limit, truncated>>

screenVars == <<md_text, styled_text, log_text, log_limit, truncated>>

textVars == <<parse_text, parse_fn, parse_result, wrap_text, wrap_width, blank_line, wrapped,
              prompt_task, prompt_existing, built_prompt, md_text, styled_text, log_text,
              log_limit, truncated>>

\* no markdown and no string is at hand for the functions of the review screen
ScreenIdle ==
    /\ md_text = <<>>
    /\ styled_text = None
    /\ log_text = <<>>
    /\ log_limit = 0
    /\ truncated = None

reviewVars == <<selected, status_message, show_help_popup, clipboard, tui_active>>

phase2Vars == <<handles, completed, results, written, ws_created, impl_started>>

\* the state when main calls run with n in Counts and interactive in Modes
Start(Counts, Modes) ==
    /\ n \in Counts
    /\ dry_run \in BOOLEAN
    /\ interactive \in Modes
    /\ pc = "collect"
    /\ i = 0
    /\ strategy_infos = <<>>
    /\ selected = 0
    /\ status_message = None
    /\ show_help_popup = FALSE
    /\ clipboard = FALSE
    /\ tui_active = FALSE
    /\ handles = <<>>
    /\ completed = <<>>
    /\ results = <<>>
    /\ written = [strategies |-> FALSE, logs |-> {}]
    /\ existing_log = <<>>
    /\ origin = <<>>
    /\ review_exit = "none"
    /\ review_ops = 0
    /\ query_count = 0
    /\ ws_created = {}
    /\ impl_started = {}
    /\ parse_text = <<>>
    /\ parse_fn = "none"
    /\ parse_result = None
    /\ wrap_text = <<>>
    /\ wrap_width = 0
    /\ blank_line = <<>>
    /\ wrapped = <<>>
    /\ prompt_task = <<>>
    /\ prompt_existing = <<>>
    /\ built_prompt = None
    /\ ScreenIdle

Init == Start(0..MaxN, BOOLEAN)

InitCollect == Start(0..MaxCollectN, BOOLEAN)

InitHeadless == Start(0..MaxHeadlessN, {FALSE})

InitReview == Start(0..MaxReviewN, {TRUE})

(***************************************************************************)
(* src/session.rs                                                          *)
(***************************************************************************)
\* Display of SessionError::SdkError
SessionError(msg) == SDK_ERROR_PREFIX \o msg

\* ClaudeSession::run_implementation: connect/query error, stream error, or completion
run_implementation(full_prompt, outcome, e) ==
    LET transcript == PROMPT_SECTION \o full_prompt \o SESSION_SECTION
    IN  CASE outcome = "sdk_error" ->
                [ok |-> FALSE, err |-> SessionError(e)]
          [] outcome = "stream_error" ->
                [ok |-> TRUE,
                 transcript |-> transcript \o STREAM_ERROR_SECTION \o e \o <<"\n">>,
                 success |-> FALSE]
          [] OTHER ->
                [ok |-> TRUE, transcript |-> transcript \o ImplOutput, success |-> TRUE]

(***************************************************************************)
(* src/workspace.rs                                                        *)
(***************************************************************************)
\* the path Workspace::create makes for an instance
WorkspacePath(base_dir, instance_id) ==
    base_dir \o <<"/">> \o WORKSPACE_NAME_PREFIX \o Timestamp \o WORKSPACE_NAME_INFIX
        \o Decimal(instance_id)

\* Display of WorkspaceError::CreateFailed
WorkspaceError(io) == WORKSPACE_ERROR_PREFIX \o io

(***************************************************************************)
(* src/main.rs and src/output.rs                                           *)
(***************************************************************************)
\* RunOutput::write_results: the strategies summary and one session log per result
write_results(rs) == [strategies |-> TRUE, logs |-> {rs[k].instance_id : k \in 1..Len(rs)}]

\* run returns Ok(rs) and main goes on: it writes the output files and exits
ReturnToMain(rs) ==
    /\ results' = rs
    /\ written' = write_results(rs)
    /\ pc' = "done"

(***************************************************************************)
(* src/conductor.rs: run                                                   *)
(***************************************************************************)
StrategyInfo(strategy, transcript, failed, error, manually_edited) ==
    [strategy |-> strategy, transcript |-> transcript, failed |-> failed,
     error |-> error, manually_edited |-> manually_edited]

InstanceResult(instance_id, strategy, workspace_path, success, error, transcript) ==
    [instance_id |-> instance_id, strategy |-> strategy,
     workspace_path |-> workspace_path, success |-> success, error |-> error,
     transcript |-> transcript]

\* the markdown of the records of infos at the positions in Keep, in order
RECURSIVE MarkdownAt(_, _, _)
MarkdownAt(infos, Keep, k) ==
    IF k > Len(infos) THEN <<>>
    ELSE (IF k \in Keep THEN <<infos[k].strategy.markdown>> ELSE <<>>)
            \o MarkdownAt(infos, Keep, k + 1)

\* the same without the failed filter
ExistingStrategies_unfiltered(infos) == MarkdownAt(infos, 1..Len(infos), 1)

\* .iter().filter(|s| !s.failed).map(|s| s.strategy.markdown.clone()).collect()
ExistingStrategies(infos) ==
    MarkdownAt(infos, {k \in 1..Len(infos) : ~infos[k].failed}, 1)

\* an exclusion list that leaves the slot's own record in
ExcludedStrategies_with_own(infos, idx) ==
    MarkdownAt(infos, {k \in 1..Len(infos) : ~infos[k].failed}, 1)

\* .iter().enumerate().filter(|(idx, s)| *idx != i && !s.failed).map(..).collect(),
\* idx the 0-based index of the record left out
ExcludedStrategies(infos, idx) ==
    MarkdownAt(infos, {k \in 1..Len(infos) : k - 1 # idx /\ ~infos[k].failed}, 1)

\* the record one Phase-1 iteration pushes in a dry run
DryRunInfo(idx, strategy_prompt) ==
    StrategyInfo(Strategy_parse(DRY_RUN_PREFIX \o Decimal(idx) \o DRY_RUN_SUFFIX),
                 strategy_prompt, FALSE, None, FALSE)

\* the record pushed for an answered strategy query
ElicitedInfo(response) ==
    StrategyInfo(parse_strategy(response), response, FALSE, None, FALSE)

\* a failure record whose error is left out
FailedInfo_without_error(prefix, e) ==
    LET error_msg == prefix \o SessionError(e)
    IN  StrategyInfo(Strategy_failed(error_msg), ERROR_PREFIX \o SessionError(e),
                     TRUE, None, FALSE)

\* the record pushed for a failed strategy query; prefix is the format string's text
FailedInfo(prefix, e) ==
    LET error_msg == prefix \o SessionError(e)
    IN  StrategyInfo(Strategy_failed(error_msg), ERROR_PREFIX \o SessionError(e),
                     TRUE, Some(error_msg), FALSE)

\* one iteration of `for i in 0..n`
CollectStep ==
    /\ pc = "collect"
    /\ i < n
    /\ LET existing_strategies == ExistingStrategies(strategy_infos)
           strategy_prompt == build_strategy_prompt(TaskPrompt, existing_strategies)
       IN  /\ existing_log' = Append(existing_log, existing_strategies)
           /\ IF dry_run
              THEN /\ strategy_infos' = Append(strategy_infos, DryRunInfo(i, strategy_prompt))
                   /\ UNCHANGED query_count
              ELSE /\ query_count' = query_count + 1
                   /\ \/ \E response \in AgentResponses :
                            strategy_infos' = Append(strategy_infos, ElicitedInfo(response))
                      \/ \E e \in SdkErrors :
                            strategy_infos' =
                                Append(strategy_infos, FailedInfo(EXTRACT_ERROR_PREFIX, e))
    /\ origin' = Append(origin, i)
    /\ i' = i + 1
    /\ UNCHANGED textVars
    /\ UNCHANGED <<n, dry_run, interactive, pc, review_exit, review_ops>>
    /\ UNCHANGED reviewVars
    /\ UNCHANGED phase2Vars

\* the dry-run branch after the loop: print the implementation prompts, return
DryRunResults(infos) ==
    [k \in 1..Len(infos) |->
        InstanceResult(k - 1, infos[k].strategy.markdown, <<>>, TRUE, None,
                       infos[k].transcript)]

DryRunReturn ==
    /\ pc = "collect"
    /\ i = n
    /\ dry_run
    /\ ReturnToMain(DryRunResults(strategy_infos))
    /\ UNCHANGED textVars
    /\ UNCHANGED <<n, dry_run, interactive, i, strategy_infos, existing_log, origin,
                   review_exit, review_ops, query_count, handles, completed,
                   ws_created, impl_started>>
    /\ UNCHANGED reviewVars

\* a task numbered from 1 instead of by the enumerate index
SpawnedTask_one_based(infos, idx) ==
    [instance_id |-> idx + 1,
     strategy |-> infos[idx + 1].strategy.markdown,
     strategy_transcript |-> infos[idx + 1].transcript,
     failed |-> infos[idx + 1].failed,
     strategy_error |-> infos[idx + 1].error,
     excluded |-> ExcludedStrategies(infos, idx),
     done |-> FALSE,
     outcome |-> "pending",
     output |-> None]

\* what the closure of one Phase-2 task captures, with the state of its JoinHandle:
\* done, output (the awaited value), and outcome (history: how the task's workspace
\* creation and session turned out, "skipped" for the task of a failed record)
SpawnedTask(infos, idx) ==
    [instance_id |-> idx,
     strategy |-> infos[idx + 1].strategy.markdown,
     strategy_transcript |-> infos[idx + 1].transcript,
     failed |-> infos[idx + 1].failed,
     strategy_error |-> infos[idx + 1].error,
     excluded |-> ExcludedStrategies(infos, idx),
     done |-> FALSE,
     outcome |-> "pending",
     output |-> None]

\* the headless run leaves the loop, or review has returned: spawn one task per record
SpawnAll ==
    /\ ~dry_run
    /\ \/ pc = "collect" /\ i = n /\ ~interactive
       \/ pc = "phase2"
    /\ handles' = [k \in 1..Len(strategy_infos) |-> SpawnedTask(strategy_infos, k - 1)]
    /\ pc' = "join"
    /\ UNCHANGED textVars
    /\ UNCHANGED <<n, dry_run, interactive, i, strategy_infos, existing_log, origin,
                   review_exit, review_ops, query_count, completed, results, written,
                   ws_created, impl_started>>
    /\ UNCHANGED reviewVars

\* outcomes of the workspace creation and session of a task that runs run_instance
TaskOutcomes == {"ok", "stream_error", "sdk_error", "ws_error", "panic"}

\* run_instance, given how workspace creation and the session turn out: the result (none
\* when the task panics in the session), and whether Workspace::create succeeded and
\* run_implementation was called
run_instance(id, prompt, strategy, strategy_transcript, excluded_strategies, run_dir, outcome, e) ==
    IF outcome = "ws_error"
    THEN [panicked |-> FALSE, workspace |-> FALSE, session |-> FALSE,
          result |-> InstanceResult(id, strategy, <<>>, FALSE,
                        Some(CREATE_WORKSPACE_ERROR_PREFIX \o WorkspaceError(e)), <<>>)]
    ELSE LET workspace == WorkspacePath(run_dir, id)
             full_prompt == build_implementation_prompt(prompt, strategy, excluded_strategies)
             r == run_implementation(full_prompt, outcome, e)
         IN  IF outcome = "panic"
             THEN [panicked |-> TRUE, workspace |-> TRUE, session |-> TRUE]
             ELSE IF r.ok
             THEN [panicked |-> FALSE, workspace |-> TRUE, session |-> TRUE,
                   result |-> InstanceResult(id, strategy, workspace, r.success,
                                 IF r.success THEN None ELSE Some(SESSION_REPORTED_FAILURE),
                                 STRATEGY_SELECTION_SECTION \o strategy_transcript
                                    \o <<"\n", "\n">> \o r.transcript)]
             ELSE [panicked |-> FALSE, workspace |-> TRUE, session |-> TRUE,
                   result |-> InstanceResult(id, strategy, workspace, FALSE, Some(r.err),
                                 STRATEGY_SELECTION_SECTION \o strategy_transcript
                                    \o ERROR_SECTION \o r.err)]

\* a task body without the `if failed` return
TaskBody_no_short_circuit(h, outcome, e) ==
    run_instance(h.instance_id, TaskPrompt, h.strategy, h.strategy_transcript, h.excluded,
                 RunDir, outcome, e)

\* the body of the task tokio::spawn runs for the captured values h
TaskBody(h, outcome, e) ==
    IF h.failed
    THEN [panicked |-> FALSE, workspace |-> FALSE, session |-> FALSE,
          result |-> InstanceResult(h.instance_id, h.strategy, <<>>, FALSE,
                                    h.strategy_error, h.strategy_transcript)]
    ELSE run_instance(h.instance_id, TaskPrompt, h.strategy, h.strategy_transcript,
                      h.excluded, RunDir, outcome, e)

\* what awaiting the JoinHandle yields: Ok(result), or Err(JoinError) for a panicked task
JoinOutput(t, je) ==
    IF t.panicked THEN [ok |-> FALSE, err |-> je] ELSE [ok |-> TRUE, value |-> t.result]

\* one spawned task runs to completion
RunTask(k) ==
    /\ pc = "join"
    /\ k \in 1..Len(handles)
    /\ ~handles[k].done
    /\ \E outcome \in TaskOutcomes, io \in IoErrors, se \in SdkErrors, je \in JoinErrors :
          LET e == IF outcome = "ws_error" THEN io ELSE se
              t == TaskBody(handles[k], outcome, e)
          IN  /\ handles' = [handles EXCEPT ![k].done = TRUE,
                                            ![k].outcome = IF handles[k].failed THEN "skipped"
                                                            ELSE outcome,
                                            ![k].output = Some(JoinOutput(t, je))]
              /\ ws_created' = IF t.workspace THEN ws_created \cup {handles[k].instance_id}
                               ELSE ws_created
              /\ impl_started' = IF t.session THEN impl_started \cup {handles[k].instance_id}
                                 ELSE impl_started
    /\ completed' = Append(completed, handles[k].instance_id)
    /\ UNCHANGED textVars
    /\ UNCHANGED <<n, dry_run, interactive, pc, i, strategy_infos, existing_log, origin,
                   review_exit, review_ops, query_count, results, written>>
    /\ UNCHANGED reviewVars

\* the result the join maps the output of handle idx to
JoinResult(infos, idx, output) ==
    IF output.ok THEN output.value
    ELSE InstanceResult(idx,
                        IF idx + 1 \in 1..Len(infos) THEN infos[idx + 1].strategy.markdown
                        ELSE <<>>,
                        <<>>, FALSE, Some(JOIN_ERROR_PREFIX \o output.err), <<>>)

\* the outputs in the order the tasks finished in
JoinAllOutputs_completion_order(hs, order) ==
    [k \in 1..Len(hs) |-> hs[order[k] + 1].output.value]

\* join_all(handles).await: the outputs, in the order of the handles
JoinAllOutputs(hs, order) == [k \in 1..Len(hs) |-> hs[k].output.value]

\* a collection that stops at the first join error
JoinResults_until_first_error(infos, outputs) ==
    LET Bad == {k \in 1..Len(outputs) : ~outputs[k].ok}
        last == IF Bad = {} THEN Len(outputs)
                ELSE (CHOOSE k \in Bad : \A j \in Bad : k <= j) - 1
    IN  [k \in 1..last |-> JoinResult(infos, k - 1, outputs[k])]

\* .into_iter().enumerate().map(|(i, r)| match r { .. }).collect()
JoinResults(infos, outputs) ==
    [k \in 1..Len(outputs) |-> JoinResult(infos, k - 1, outputs[k])]

\* all tasks are done: collect the results and return them to main
JoinAll ==
    /\ pc = "join"
    /\ \A k \in 1..Len(handles) : handles[k].done
    /\ ReturnToMain(JoinResults(strategy_infos, JoinAllOutputs(handles, completed)))
    /\ UNCHANGED textVars
    /\ UNCHANGED <<n, dry_run, interactive, i, strategy_infos, existing_log, origin,
                   review_exit, review_ops, query_count, handles, completed,
                   ws_created, impl_started>>
    /\ UNCHANGED reviewVars

(***************************************************************************)
(* src/conductor.rs: interactive_strategy_review                           *)
(***************************************************************************)
\* Some(format!(fmt, args..)): the format string and the Display of its arguments
Status(fmt, args) == Some([fmt |-> fmt, args |-> args])

\* what leaving the review function does to run's state: the returned vector replaces
\* strategy_infos, the locals of the review loop are dropped
ReturnFromReview(returned, how) ==
    /\ strategy_infos' = returned
    /\ origin' = IF returned = <<>> THEN <<>> ELSE origin
    /\ review_exit' = how
    /\ tui_active' = FALSE
    /\ selected' = 0
    /\ status_message' = None
    /\ show_help_popup' = FALSE
    /\ clipboard' = FALSE
    /\ pc' = "phase2"
    /\ review_ops' = 0
    /\ UNCHANGED textVars
    /\ UNCHANGED <<n, dry_run, interactive, i, existing_log, query_count>>
    /\ UNCHANGED phase2Vars

\* disable_raw_mode(); stdout().execute(LeaveAlternateScreen): presentation mode is left
SuspendTui(active) == FALSE

\* a handler that does not re-enter presentation mode
ResumeTui_skipped(active) == active

\* enable_raw_mode(); stdout().execute(EnterAlternateScreen); terminal.clear()
ResumeTui(active) == TRUE

\* `if interactive`, without the dry-run test
ReviewRequested_ignoring_dry_run(is_interactive, is_dry_run) == is_interactive

\* `if interactive && !dry_run`
ReviewRequested(is_interactive, is_dry_run) == is_interactive /\ ~is_dry_run

\* review is requested: set the terminal up and enter the loop
EnterReview ==
    /\ pc = "collect"
    /\ i = n
    /\ ReviewRequested(interactive, dry_run)
    /\ tui_active' = TRUE
    /\ selected' = Len(strategy_infos)
    /\ status_message' = None
    /\ show_help_popup' = FALSE
    /\ clipboard' \in BOOLEAN
    /\ pc' = "review"
    /\ UNCHANGED textVars
    /\ UNCHANGED <<n, dry_run, interactive, i, strategy_infos, existing_log, origin,
                   review_exit, review_ops, query_count>>
    /\ UNCHANGED phase2Vars

\* a dispatch that does not look at the help popup
Dispatched_under_overlay == pc = "review"

\* a key press reaches the `match key.code` of the loop
Dispatched == pc = "review" /\ ~show_help_popup

\* Ctrl+C: handled before the help popup
KeyCtrlC ==
    /\ pc = "review"
    /\ ReturnFromReview(<<>>, "quit")

\* any other key while the help popup is shown
KeyDismissHelp ==
    /\ pc = "review"
    /\ show_help_popup
    /\ show_help_popup' = FALSE
    /\ status_message' = None
    /\ UNCHANGED textVars
    /\ UNCHANGED <<n, dry_run, interactive, pc, i, strategy_infos, selected, clipboard,
                   tui_active, existing_log, origin, review_exit, review_ops, query_count>>
    /\ UNCHANGED phase2Vars

\* '?'
KeyHelp ==
    /\ Dispatched
    /\ show_help_popup' = TRUE
    /\ status_message' = None
    /\ UNCHANGED textVars
    /\ UNCHANGED <<n, dry_run, interactive, pc, i, strategy_infos, selected, clipboard,
                   tui_active, existing_log, origin, review_exit, review_ops, query_count>>
    /\ UNCHANGED phase2Vars

\* 'q' or Esc
KeyQuit ==
    /\ Dispatched
    /\ ReturnFromReview(<<>>, "quit")

\* an Up that stops at the first row
UpFrom_clamped(sel, len) == IF sel = 0 THEN 0 ELSE sel - 1

\* the selection Up/'k' moves to, len the number of records
UpFrom(sel, len) == IF sel = 0 THEN len ELSE sel - 1

\* a Down that does not wrap at the sentinel row
DownFrom_past_sentinel(sel, len) == sel + 1

\* the selection Down/'j' moves to
DownFrom(sel, len) == IF sel >= len THEN 0 ELSE sel + 1

\* a key that changes the selection or the status line only
KeySelect(new_selected, status) ==
    /\ Dispatched
    /\ selected' = new_selected
    /\ status_message' = status
    /\ UNCHANGED textVars
    /\ UNCHANGED <<n, dry_run, interactive, pc, i, strategy_infos, show_help_popup,
                   clipboard, tui_active, existing_log, origin, review_exit, review_ops,
                   query_count>>
    /\ UNCHANGED phase2Vars

KeyUp == KeySelect(UpFrom(selected, Len(strategy_infos)), None)

KeyDown == KeySelect(DownFrom(selected, Len(strategy_infos)), None)

\* a key the match has no arm for
KeyOther == KeySelect(selected, None)

\* an Enter that also accepts on the last record's row
AcceptSelected_last_row(sel, len) == sel >= len - 1

\* `if selected == n`: Enter is on the "Accept all" row
AcceptSelected(sel, len) == sel = len

\* Enter on the Accept row: break, clean up, return the vector
KeyEnterAccept ==
    /\ Dispatched
    /\ AcceptSelected(selected, Len(strategy_infos))
    /\ ReturnFromReview(strategy_infos, "accept")

\* the scratch file edit_strategy_in_editor writes for a strategy
EditorFile(strategy) ==
    EDITOR_HEADER_1 \o <<"\n">> \o EDITOR_HEADER_2 \o <<"\n">> \o <<"\n">> \o strategy
        \o <<"\n">>

\* whether a line survives `.filter(|line| !line.trim_start().starts_with('#'))`
KeptLine(l) == TrimStart(l) = <<>> \/ TrimStart(l)[1] # "#"

\* edit_strategy_in_editor, given what the editor did: ed.kind is "io_error" (with
\* ed.err), "exit_failure", "not_saved", or "saved" (with ed.content, the file's text)
edit_strategy_in_editor(strategy, ed) ==
    CASE ed.kind = "io_error" -> [ok |-> FALSE, err |-> ed.err]
      [] ed.kind \in {"exit_failure", "not_saved"} -> [ok |-> TRUE, value |-> None]
      [] OTHER ->
            LET edited == Trim(Join(SelectSeq(Lines(ed.content), KeptLine), <<"\n">>))
            IN  [ok |-> TRUE, value |-> IF edited = <<>> THEN None ELSE Some(edited)]

\* what the editor can do with the scratch file of a strategy
EditorOutcomes(strategy) ==
    {[kind |-> "io_error", err |-> e] : e \in IoErrors}
        \cup {[kind |-> "exit_failure"], [kind |-> "not_saved"]}
        \cup {[kind |-> "saved", content |-> EditorFile(t)] : t \in EditorTexts \cup {strategy}}

\* a create_agent_with_edited_strategy that does not mark the record as manually edited
create_agent_with_edited_strategy_unmarked(edited_strategy, q) ==
    IF q.ok
    THEN StrategyInfo(Strategy_parse(edited_strategy), q.response, FALSE, None, FALSE)
    ELSE FailedInfo(EDIT_ERROR_PREFIX, q.err)

\* create_agent_with_edited_strategy, given the answer to its query: q.ok with
\* q.response, or the SDK error q.err
create_agent_with_edited_strategy(edited_strategy, q) ==
    IF q.ok
    THEN StrategyInfo(Strategy_parse(edited_strategy), q.response, FALSE, None, TRUE)
    ELSE FailedInfo(EDIT_ERROR_PREFIX, q.err)

\* the answers a strategy query can get
QueryOutcomes ==
    {[ok |-> TRUE, response |-> r] : r \in AgentResponses}
        \cup {[ok |-> FALSE, err |-> e] : e \in SdkErrors}

\* Enter on a record: edit it in the editor
KeyEnterEdit ==
    /\ Dispatched
    /\ ~AcceptSelected(selected, Len(strategy_infos))
    /\ LET idx == selected
           original_markdown == strategy_infos[idx + 1].strategy.markdown
       IN  \E ed \in EditorOutcomes(original_markdown) :
              LET r == edit_strategy_in_editor(original_markdown, ed)
              IN  IF r.ok /\ r.value.some /\ r.value.value # original_markdown
                  THEN /\ review_ops < MaxReviewOps
                       /\ \E q \in QueryOutcomes :
                            strategy_infos' =
                                [strategy_infos EXCEPT
                                    ![idx + 1] =
                                        create_agent_with_edited_strategy(r.value.value, q)]
                       /\ status_message' = Status("C{} strategy updated", <<Decimal(idx)>>)
                       /\ review_ops' = review_ops + 1
                       /\ query_count' = query_count + 1
                  ELSE /\ status_message' =
                            IF r.ok THEN Status("Strategy unchanged", <<>>)
                            ELSE Status("Editor error: {}", <<r.err>>)
                       /\ UNCHANGED <<strategy_infos, review_ops, query_count>>
    /\ tui_active' = ResumeTui(SuspendTui(tui_active))
    /\ UNCHANGED textVars
    /\ UNCHANGED <<n, dry_run, interactive, pc, i, selected, show_help_popup, clipboard,
                   existing_log, origin, review_exit>>
    /\ UNCHANGED phase2Vars

\* a removing guard that lets the last record go
CanRemove_no_minimum(sel, len) == sel < len /\ len >= 1

\* the guard of the removing arm of 'd'/Delete: sel is the selection, len the record count
CanRemove(sel, len) == sel < len /\ len > 1

\* Vec::remove at a 1-based position
RemoveAt(s, k) == SubSeq(s, 1, k - 1) \o SubSeq(s, k + 1, Len(s))

\* 'd' or Delete
KeyDelete ==
    /\ Dispatched
    /\ LET len == Len(strategy_infos)
       IN  IF CanRemove(selected, len)
           THEN /\ review_ops < MaxReviewOps
                /\ strategy_infos' = RemoveAt(strategy_infos, selected + 1)
                /\ origin' = RemoveAt(origin, selected + 1)
                /\ status_message' = Status("Removed C{}", <<Decimal(selected)>>)
                /\ selected' = IF selected >= len - 1 THEN len - 1 ELSE selected
                /\ review_ops' = review_ops + 1
           ELSE /\ status_message' =
                    IF selected < len /\ len = 1
                    THEN Status("Cannot remove last strategy", <<>>)
                    ELSE Status("Select a strategy to delete", <<>>)
                /\ UNCHANGED <<strategy_infos, origin, selected, review_ops>>
    /\ UNCHANGED textVars
    /\ UNCHANGED <<n, dry_run, interactive, pc, i, show_help_popup, clipboard, tui_active,
                   existing_log, review_exit, query_count>>
    /\ UNCHANGED phase2Vars

\* a copy that drops the selected record when the clipboard cannot be set
KeyCopy_lossy ==
    /\ Dispatched
    /\ \/ /\ selected < Len(strategy_infos)
          /\ clipboard
          /\ \/ /\ status_message' = Status("C{} copied to clipboard", <<Decimal(selected)>>)
                /\ UNCHANGED strategy_infos
             \/ \E e \in IoErrors :
                   /\ status_message' = Status("Clipboard error: {}", <<e>>)
                   /\ strategy_infos' = RemoveAt(strategy_infos, selected + 1)
       \/ /\ selected < Len(strategy_infos)
          /\ ~clipboard
          /\ status_message' = Status("Clipboard unavailable", <<>>)
          /\ strategy_infos' = RemoveAt(strategy_infos, selected + 1)
       \/ /\ selected >= Len(strategy_infos)
          /\ status_message' = Status("Select a strategy to copy", <<>>)
          /\ UNCHANGED strategy_infos
    /\ UNCHANGED textVars
    /\ UNCHANGED <<n, dry_run, interactive, pc, i, selected,
                   show_help_popup, clipboard, tui_active, existing_log, origin,
                   review_exit, review_ops, query_count>>
    /\ UNCHANGED phase2Vars

\* 'c': copy the selected strategy's markdown to the clipboard
KeyCopy ==
    /\ Dispatched
    /\ \/ /\ selected < Len(strategy_infos)
          /\ clipboard
          /\ \/ status_message' = Status("C{} copied to clipboard", <<Decimal(selected)>>)
             \/ \E e \in IoErrors : status_message' = Status("Clipboard error: {}", <<e>>)
       \/ /\ selected < Len(strategy_infos)
          /\ ~clipboard
          /\ status_message' = Status("Clipboard unavailable", <<>>)
       \/ /\ selected >= Len(strategy_infos)
          /\ status_message' = Status("Select a strategy to copy", <<>>)
    /\ UNCHANGED textVars
    /\ UNCHANGED <<n, dry_run, interactive, pc, i, strategy_infos, selected,
                   show_help_popup, clipboard, tui_active, existing_log, origin,
                   review_exit, review_ops, query_count>>
    /\ UNCHANGED phase2Vars

\* 'o': elicit one more strategy and push it
KeyAdd ==
    /\ Dispatched
    /\ Len(strategy_infos) < MaxRecords
    /\ review_ops < MaxReviewOps
    /\ LET len == Len(strategy_infos)
           existing_strategies == ExistingStrategies(strategy_infos)
           strategy_prompt == build_strategy_prompt(TaskPrompt, existing_strategies)
       IN  /\ existing_log' = Append(existing_log, existing_strategies)
           /\ \E q \in QueryOutcomes :
              IF q.ok
              THEN /\ strategy_infos' = Append(strategy_infos, ElicitedInfo(q.response))
                   /\ status_message' = Status("Added C{}", <<Decimal(len)>>)
              ELSE LET failed == FailedInfo(GENERATE_ERROR_PREFIX, q.err)
                   IN  /\ strategy_infos' = Append(strategy_infos, failed)
                       /\ status_message' =
                            Status("C{} failed: {}", <<Decimal(len), failed.error.value>>)
    /\ origin' = Append(origin, -1)
    /\ review_ops' = review_ops + 1
    /\ query_count' = query_count + 1
    /\ tui_active' = ResumeTui(SuspendTui(tui_active))
    /\ UNCHANGED textVars
    /\ UNCHANGED <<n, dry_run, interactive, pc, i, selected, show_help_popup, clipboard,
                   review_exit>>
    /\ UNCHANGED phase2Vars

\* chat_with_strategy, given what the subprocess did: ch.kind is "spawn_error" (with
\* ch.err), "exit_failure" (with ch.code), "no_file", "read_error" (with ch.err), or
\* "file" (with ch.content, the scratch file's text)
chat_with_strategy(ch) ==
    CASE ch.kind = "spawn_error" ->
            [kind |-> "Error", msg |-> SPAWN_CLAUDE_ERROR_PREFIX \o ch.err]
      [] ch.kind = "exit_failure" ->
            [kind |-> "Error", msg |-> CLAUDE_EXIT_PREFIX \o Decimal(ch.code)]
      [] ch.kind = "read_error" ->
            [kind |-> "Error", msg |-> READ_REVISED_ERROR_PREFIX \o ch.err]
      [] ch.kind = "file" /\ Trim(ch.content) # <<>> ->
            [kind |-> "RevisedStrategy", markdown |-> Trim(ch.content)]
      [] OTHER -> [kind |-> "NoChanges"]

\* what the chat subprocess can do
ChatOutcomes ==
    {[kind |-> "spawn_error", err |-> e] : e \in IoErrors}
        \cup {[kind |-> "exit_failure", code |-> c] : c \in ChatExitCodes}
        \cup {[kind |-> "read_error", err |-> e] : e \in IoErrors}
        \cup {[kind |-> "no_file"]}
        \cup {[kind |-> "file", content |-> c] : c \in ChatFiles}

\* a chat revision that does not mark the record as manually edited
RevisedInfo_not_marked(new_markdown) ==
    StrategyInfo(Strategy_parse(new_markdown), CHAT_TRANSCRIPT_PREFIX \o new_markdown,
                 FALSE, None, FALSE)

\* the record a chat revision puts in place of the selected one
RevisedInfo(new_markdown) ==
    StrategyInfo(Strategy_parse(new_markdown), CHAT_TRANSCRIPT_PREFIX \o new_markdown,
                 FALSE, None, TRUE)

\* 't': chat about the selected strategy
KeyChat ==
    /\ Dispatched
    /\ IF selected < Len(strategy_infos)
       THEN \E ch \in ChatOutcomes :
              LET r == chat_with_strategy(ch)
              IN  CASE r.kind = "RevisedStrategy" ->
                          /\ review_ops < MaxReviewOps
                          /\ strategy_infos' =
                                [strategy_infos EXCEPT ![selected + 1] = RevisedInfo(r.markdown)]
                          /\ status_message' =
                                Status("C{} strategy revised", <<Decimal(selected)>>)
                          /\ review_ops' = review_ops + 1
                    [] r.kind = "Error" ->
                          /\ status_message' = Status("Chat error: {}", <<r.msg>>)
                          /\ UNCHANGED <<strategy_infos, review_ops>>
                    [] OTHER ->
                          /\ status_message' = Status("Chat ended without changes", <<>>)
                          /\ UNCHANGED <<strategy_infos, review_ops>>
       ELSE /\ status_message' = Status("Select a strategy to discuss", <<>>)
            /\ UNCHANGED <<strategy_infos, review_ops>>
    /\ tui_active' = IF selected < Len(strategy_infos)
                     THEN ResumeTui(SuspendTui(tui_active))
                     ELSE tui_active
    /\ UNCHANGED textVars
    /\ UNCHANGED <<n, dry_run, interactive, pc, i, selected, show_help_popup, clipboard,
                   existing_log, origin, review_exit, query_count>>
    /\ UNCHANGED phase2Vars

(***************************************************************************)
(* The run as a whole.                                                     *)
(***************************************************************************)
Next ==
    \/ CollectStep
    \/ DryRunReturn
    \/ EnterReview
    \/ KeyCtrlC
    \/ KeyDismissHelp
    \/ KeyHelp
    \/ KeyQuit
    \/ KeyUp
    \/ KeyDown
    \/ KeyOther
    \/ KeyEnterAccept
    \/ KeyEnterEdit
    \/ KeyDelete
    \/ KeyCopy
    \/ KeyAdd
    \/ KeyChat
    \/ SpawnAll
    \/ \E k \in 1..Len(handles) : RunTask(k)
    \/ JoinAll

Spec == Init /\ [][Next]_vars

(***************************************************************************)
(* Phase 1 alone: the elicitation loop of runs of up to MaxCollectN         *)
(* instances.                                                              *)
(***************************************************************************)
NextCollect == CollectStep

SpecCollect == InitCollect /\ [][NextCollect]_vars

(***************************************************************************)
(* Headless runs of up to MaxHeadlessN instances.                          *)
(***************************************************************************)
NextHeadless ==
    \/ CollectStep
    \/ DryRunReturn
    \/ SpawnAll
    \/ \E k \in 1..Len(handles) : RunTask(k)
    \/ JoinAll

SpecHeadless == InitHeadless /\ [][NextHeadless]_vars

(***************************************************************************)
(* Interactive runs of up to MaxReviewN instances, up to the return from   *)
(* review.                                                                 *)
(***************************************************************************)
NextReview ==
    \/ CollectStep
    \/ DryRunReturn
    \/ EnterReview
    \/ KeyCtrlC
    \/ KeyDismissHelp
    \/ KeyHelp
    \/ KeyQuit
    \/ KeyUp
    \/ KeyDown
    \/ KeyOther
    \/ KeyEnterAccept
    \/ KeyEnterEdit
    \/ KeyDelete
    \/ KeyCopy
    \/ KeyAdd
    \/ KeyChat

SpecReview == InitReview /\ [][NextReview]_vars

(***************************************************************************)
(* Headless runs in which every call returns: run takes each step it can   *)
(* take, and the runtime runs every spawned task to its end.  Weak         *)
(* fairness of CollectStep and of RunTask(k) is written out, WF_v(A) being *)
(* []<>(~ENABLED <<A>>_v) \/ []<><<A>>_v, with the guard of the action for  *)
(* its enabling condition: the step changes the state whenever the guard   *)
(* holds.                                                                  *)
(***************************************************************************)
\* the query of a Phase-1 iteration returns
CollectStepFair ==
    []<>(~(pc = "collect" /\ i < n)) \/ []<><<CollectStep>>_vars

\* the workspace creation and the session of spawned task k return
RunTaskFair(k) ==
    []<>(~(pc = "join" /\ k \in 1..Len(handles) /\ ~handles[k].done))
        \/ []<><<RunTask(k)>>_vars

FairHeadless ==
    /\ CollectStepFair
    /\ WF_vars(DryRunReturn)
    /\ WF_vars(SpawnAll)
    /\ \A k \in 1..(MaxHeadlessN + 1) : RunTaskFair(k)
    /\ WF_vars(JoinAll)

SpecHeadlessLive == InitHeadless /\ [][NextHeadless]_vars /\ FairHeadless

(***************************************************************************)
(* src/strategy.rs alone: Strategy::parse and parse_strategy called on     *)
(* texts of up to MaxTokens markup tokens and on "STRATEGY: X" for texts X *)
(* of up to MaxLineLen characters.                                         *)
(***************************************************************************)
MaxTokens == 6

MaxLineLen == 4

\* the pieces the markup texts are made of
MarkupTokens == {<<"*", "*">>, <<"*">>, <<"a">>, <<"b">>, <<" ">>, <<BACKTICK>>}

\* the texts made of up to k markup tokens
RECURSIVE TokenTexts(_)
TokenTexts(k) ==
    IF k = 0 THEN {<<>>}
    ELSE LET shorter == TokenTexts(k - 1)
         IN  shorter \cup {s \o t : s \in shorter, t \in MarkupTokens}

\* the characters of the texts that follow "STRATEGY: "
LineChars == {"a", " ", "\n", "\r"}

\* the texts X of up to MaxLineLen characters
LineTexts == UNION {[1..k -> LineChars] : k \in 0..MaxLineLen}

\* the response "STRATEGY: X"
Prefixed(X) == STRATEGY_MARKER \o <<" ">> \o X

\* the texts the functions are called on
ParseTexts == TokenTexts(MaxTokens) \cup {Prefixed(X) : X \in LineTexts}

\* no run is under way; a text is at hand and no function has been called on it
InitText ==
    /\ n = 0
    /\ dry_run = FALSE
    /\ interactive = FALSE
    /\ pc = "idle"
    /\ i = 0
    /\ strategy_infos = <<>>
    /\ selected = 0
    /\ status_message = None
    /\ show_help_popup = FALSE
    /\ clipboard = FALSE
    /\ tui_active = FALSE
    /\ handles = <<>>
    /\ completed = <<>>
    /\ results = <<>>
    /\ written = [strategies |-> FALSE, logs |-> {}]
    /\ existing_log = <<>>
    /\ origin = <<>>
    /\ review_exit = "none"
    /\ review_ops = 0
    /\ query_count = 0
    /\ ws_created = {}
    /\ impl_started = {}
    /\ parse_text \in ParseTexts
    /\ parse_fn = "none"
    /\ parse_result = None
    /\ wrap_text = <<>>
    /\ wrap_width = 0
    /\ blank_line = <<>>
    /\ wrapped = <<>>
    /\ prompt_task = <<>>
    /\ prompt_existing = <<>>
    /\ built_prompt = None
    /\ ScreenIdle

\* a call of f, named name, on the text at hand
CallOn(name, result) ==
    /\ pc = "idle"
    /\ parse_fn = "none"
    /\ parse_fn' = name
    /\ parse_result' = Some(result)
    /\ UNCHANGED <<wrap_text, wrap_width, blank_line, wrapped, prompt_task, prompt_existing,
                   built_prompt>>
    /\ UNCHANGED <<parse_text, n, dry_run, interactive, pc, i, strategy_infos, existing_log,
                   origin, review_exit, review_ops, query_count>>
    /\ UNCHANGED screenVars
    /\ UNCHANGED reviewVars
    /\ UNCHANGED phase2Vars

\* Strategy::parse(text)
CallStrategyParse == CallOn("Strategy::parse", Strategy_parse(parse_text))

\* parse_strategy(response)
CallParseStrategy == CallOn("parse_strategy", parse_strategy(parse_text))

NextText ==
    \/ CallStrategyParse
    \/ CallParseStrategy

SpecText == InitText /\ [][NextText]_vars

(***************************************************************************)
(* src/conductor.rs: wrap_styled_line, wrap_styled_text.  A Text is a      *)
(* sequence of Lines, a Line a sequence of Spans, a Span a content with a  *)
(* style.                                                                  *)
(***************************************************************************)
Span(content, style) == [content |-> content, style |-> style]

\* an available max_width that is one too large
Available_one_more(max_width, current_width) == max_width - current_width + 1

\* max_width.saturating_sub(current_width)
Available(max_width, current_width) == IF max_width > current_width THEN max_width - current_width ELSE 0

\* the break point in chars, which holds more than available characters: after the last
\* space among the first available characters, at available if there is none
BreakAt(chars, available) ==
    LET spaces == {p \in 1..available : chars[p] = " "}
    IN  IF spaces = {} THEN available ELSE CHOOSE p \in spaces : \A q \in spaces : q <= p

\* the number of characters taken from remaining
TakeChars(remaining, available) ==
    IF Len(remaining) <= available THEN Len(remaining)
    ELSE LET break_at == BreakAt(remaining, available)
         IN  IF break_at = 0 THEN 1 ELSE break_at

\* a split that loses the character after the break
Rest_skipping_one(remaining, take_chars) == SubSeq(remaining, take_chars + 2, Len(remaining))

\* remaining.split_at(byte_end): the part taken and the rest
Taken(remaining, take_chars) == SubSeq(remaining, 1, take_chars)

Rest(remaining, take_chars) == SubSeq(remaining, take_chars + 1, Len(remaining))

\* a push of the current line that leaves its spans in current_spans
AfterPush_cloned(current_spans) == current_spans

\* current_spans after result.push(Line::from(std::mem::take(&mut current_spans)))
AfterPush(current_spans) == <<>>

\* the `while !remaining.is_empty()` loop for one span; cur holds current_spans,
\* current_width and result
RECURSIVE wrap_span(_, _, _, _)
wrap_span(style, remaining, cur, max_width) ==
    IF remaining = <<>> THEN cur
    ELSE LET available == Available(max_width, cur.current_width)
         IN  IF available = 0
             THEN wrap_span(style, remaining,
                            [current_spans |-> AfterPush(cur.current_spans),
                             current_width |-> 0,
                             result |-> Append(cur.result, cur.current_spans)], max_width)
             ELSE LET take_chars == TakeChars(remaining, available)
                      spans == Append(cur.current_spans,
                                      Span(Taken(remaining, take_chars), style))
                      rest == Rest(remaining, take_chars)
                  IN  IF rest = <<>>
                      THEN [current_spans |-> spans,
                            current_width |-> cur.current_width + take_chars,
                            result |-> cur.result]
                      ELSE wrap_span(style, rest,
                                     [current_spans |-> AfterPush(spans),
                                      current_width |-> 0,
                                      result |-> Append(cur.result, spans)], max_width)

\* the `for span in line.spans` loop from span k on
RECURSIVE wrap_spans(_, _, _, _)
wrap_spans(line, k, cur, max_width) ==
    IF k > Len(line) THEN cur
    ELSE wrap_spans(line, k + 1, wrap_span(line[k].style, line[k].content, cur, max_width), max_width)

wrap_styled_line(line, max_width) ==
    IF max_width = 0 THEN <<line>>
    ELSE LET cur == wrap_spans(line, 1,
                               [current_spans |-> <<>>, current_width |-> 0,
                                result |-> <<>>], max_width)
             result == IF cur.current_spans # <<>>
                       THEN Append(cur.result, cur.current_spans)
                       ELSE cur.result
         IN  IF result = <<>> THEN <<blank_line>> ELSE result

\* .flat_map(|line| wrap_styled_line(line, max_width)) from line k on
RECURSIVE wrap_lines(_, _, _)
wrap_lines(text, k, max_width) ==
    IF k > Len(text) THEN <<>>
    ELSE wrap_styled_line(text[k], max_width) \o wrap_lines(text, k + 1, max_width)

wrap_styled_text(text, max_width) == wrap_lines(text, 1, max_width)

(***************************************************************************)
(* wrap_styled_text alone: called on texts of one or two lines of up to    *)
(* MaxLineChars characters with widths up to MaxWidth, then on its own     *)
(* result.                                                                 *)
(***************************************************************************)
MaxLineChars == 4

MaxWidth == 3

MaxRewraps == 2

WrapChars == {"a", " "}

WrapStyles == {"plain", "bold"}

\* the lines of up to k characters in spans that are not empty
RECURSIVE StyledLines(_)
StyledLines(k) ==
    IF k = 0 THEN {<<>>}
    ELSE LET shorter == StyledLines(k - 1)
         IN  shorter
                \cup {Append(l, Span(<<c>>, s)) : l \in shorter, c \in WrapChars, s \in WrapStyles}
                \cup {[l EXCEPT ![Len(l)].content = Append(@, c)] :
                            l \in shorter \ {<<>>}, c \in WrapChars}

\* lines with an empty span
EmptySpanLines ==
    {<<Span(<<>>, "bold")>>,
     <<Span(<<>>, "plain"), Span(<<"a", " ", "a">>, "bold")>>,
     <<Span(<<"a", "a">>, "plain"), Span(<<>>, "bold"), Span(<<"a">>, "plain")>>}

WrapLines == StyledLines(MaxLineChars) \cup EmptySpanLines

\* the second line of the texts of two lines
SecondLine == <<Span(<<"a", " ", "a", "a">>, "bold")>>

WrapTexts == {<<>>} \cup {<<l>> : l \in WrapLines} \cup {<<l, SecondLine>> : l \in WrapLines}

\* no run is under way; a text and a width are at hand
InitReflow ==
    /\ n = 0
    /\ dry_run = FALSE
    /\ interactive = FALSE
    /\ pc = "idle"
    /\ i = 0
    /\ strategy_infos = <<>>
    /\ selected = 0
    /\ status_message = None
    /\ show_help_popup = FALSE
    /\ clipboard = FALSE
    /\ tui_active = FALSE
    /\ handles = <<>>
    /\ completed = <<>>
    /\ results = <<>>
    /\ written = [strategies |-> FALSE, logs |-> {}]
    /\ existing_log = <<>>
    /\ origin = <<>>
    /\ review_exit = "none"
    /\ review_ops = 0
    /\ query_count = 0
    /\ ws_created = {}
    /\ impl_started = {}
    /\ parse_text = <<>>
    /\ parse_fn = "none"
    /\ parse_result = None
    /\ wrap_text \in WrapTexts
    /\ wrap_width \in 0..MaxWidth
    /\ blank_line \in {<<>>, <<Span(<<>>, "plain")>>}
    /\ wrapped = <<>>
    /\ prompt_task = <<>>
    /\ prompt_existing = <<>>
    /\ built_prompt = None
    /\ ScreenIdle

\* a call of wrap_styled_text on text with the width at hand
CallWrapOn(text) ==
    /\ pc = "idle"
    /\ parse_fn = "none"
    /\ wrapped' = Append(wrapped, wrap_styled_text(text, wrap_width))
    /\ UNCHANGED <<wrap_text, wrap_width, blank_line, parse_text, parse_fn, parse_result,
                   prompt_task, prompt_existing, built_prompt>>
    /\ UNCHANGED <<n, dry_run, interactive, pc, i, strategy_infos, existing_log, origin,
                   review_exit, review_ops, query_count>>
    /\ UNCHANGED screenVars
    /\ UNCHANGED reviewVars
    /\ UNCHANGED phase2Vars

\* wrap_styled_text(preview_text, wrap_width)
CallWrap ==
    /\ wrapped = <<>>
    /\ CallWrapOn(wrap_text)

\* wrap_styled_text on the Text the last call returned
CallWrapAgain ==
    /\ wrapped # <<>>
    /\ Len(wrapped) < MaxRewraps
    /\ CallWrapOn(wrapped[Len(wrapped)])

NextReflow ==
    \/ CallWrap
    \/ CallWrapAgain

SpecReflow == InitReflow /\ [][NextReflow]_vars

(***************************************************************************)
(* build_strategy_prompt alone: called on tasks and on lists of up to      *)
(* MaxExisting existing strategies.                                        *)
(***************************************************************************)
MaxExisting == 2

\* tasks: a word, two lines, and a task that speaks of the template's placeholder
PromptTasks ==
    {<<"T">>,
     <<"a", "\n", "b">>,
     <<"f", "i", "x", " ">> \o EXCLUSIONS_PLACEHOLDER}

\* strategies as records hold them: with bold, plain, with code, of two lines
PromptStrategies ==
    {<<"A", " ", "*", "*", "a", "*", "*">>,
     <<"B">>,
     <<"C", " ", BACKTICK, "c", BACKTICK>>,
     <<"D", "\n", "d">>}

\* the lists of up to k strategies
RECURSIVE StrategyLists(_)
StrategyLists(k) ==
    IF k = 0 THEN {<<>>}
    ELSE LET shorter == StrategyLists(k - 1)
         IN  shorter \cup {Append(l, s) : l \in shorter, s \in PromptStrategies}

\* the variables of a run when no run is under way
IdleRun ==
    /\ n = 0
    /\ dry_run = FALSE
    /\ interactive = FALSE
    /\ pc = "idle"
    /\ i = 0
    /\ strategy_infos = <<>>
    /\ selected = 0
    /\ status_message = None
    /\ show_help_popup = FALSE
    /\ clipboard = FALSE
    /\ tui_active = FALSE
    /\ handles = <<>>
    /\ completed = <<>>
    /\ results = <<>>
    /\ written = [strategies |-> FALSE, logs |-> {}]
    /\ existing_log = <<>>
    /\ origin = <<>>
    /\ review_exit = "none"
    /\ review_ops = 0
    /\ query_count = 0
    /\ ws_created = {}
    /\ impl_started = {}

\* no run is under way; a task and a list of strategies are at hand
InitPrompt ==
    /\ IdleRun
    /\ parse_text = <<>>
    /\ parse_fn = "none"
    /\ parse_result = None
    /\ wrap_text = <<>>
    /\ wrap_width = 0
    /\ blank_line = <<>>
    /\ wrapped = <<>>
    /\ prompt_task \in PromptTasks
    /\ prompt_existing \in StrategyLists(MaxExisting)
    /\ built_prompt = None
    /\ ScreenIdle

\* build_strategy_prompt(task, existing_strategies)
CallBuildStrategyPrompt ==
    /\ pc = "idle"
    /\ built_prompt = None
    /\ built_prompt' = Some(build_strategy_prompt(prompt_task, prompt_existing))
    /\ UNCHANGED <<prompt_task, prompt_existing, parse_text, parse_fn, parse_result,
                   wrap_text, wrap_width, blank_line, wrapped>>
    /\ UNCHANGED <<n, dry_run, interactive, pc, i, strategy_infos, existing_log, origin,
                   review_exit, review_ops, query_count>>
    /\ UNCHANGED screenVars
    /\ UNCHANGED reviewVars
    /\ UNCHANGED phase2Vars

NextPrompt == CallBuildStrategyPrompt

SpecPrompt == InitPrompt /\ [][NextPrompt]_vars

(***************************************************************************)
(* src/conductor.rs: markdown_to_styled_text, parse_inline_formatting.     *)
(***************************************************************************)
\* Style::default().fg(fg), with .add_modifier(Modifier::BOLD) when bold
Style(fg, bold) == [fg |-> fg, bold |-> bold]

\* the style of Line::from(String): Style::default()
PlainStyle == Style("Reset", FALSE)

\* the closure make_style of parse_inline_formatting
make_style(in_code, in_bold) ==
    CASE in_code /\ in_bold -> Style("LightYellow", TRUE)
      [] in_code /\ ~in_bold -> Style("LightYellow", FALSE)
      [] ~in_code /\ in_bold -> Style("White", TRUE)
      [] OTHER -> Style("Gray", FALSE)

\* "flush current text": push current_text as a span when it is not empty
Flushed(spans, current_text, in_code, in_bold) ==
    IF current_text # <<>>
    THEN Append(spans, Span(current_text, make_style(in_code, in_bold)))
    ELSE spans

\* the `while let Some(c) = chars.next()` loop from character k on
RECURSIVE inline_scan(_, _, _, _, _, _)
inline_scan(line, k, spans, current_text, in_code, in_bold) ==
    IF k > Len(line) THEN Flushed(spans, current_text, in_code, in_bold)
    ELSE IF line[k] = "*" /\ k < Len(line) /\ line[k + 1] = "*" /\ ~in_code
    THEN inline_scan(line, k + 2, Flushed(spans, current_text, in_code, in_bold), <<>>,
                     in_code, ~in_bold)
    ELSE IF line[k] = BACKTICK
    THEN inline_scan(line, k + 1, Flushed(spans, current_text, in_code, in_bold), <<>>,
                     ~in_code, in_bold)
    ELSE inline_scan(line, k + 1, spans, Append(current_text, line[k]), in_code, in_bold)

parse_inline_formatting(line) ==
    LET spans == inline_scan(line, 1, <<>>, <<>>, FALSE, FALSE)
    IN  IF spans = <<>> THEN blank_line ELSE spans

\* str::starts_with
StartsWith(s, pat) == Len(s) >= Len(pat) /\ SubSeq(s, 1, Len(pat)) = pat

\* char::is_ascii_digit
IsAsciiDigit(c) == c \in {"0", "1", "2", "3", "4", "5", "6", "7", "8", "9"}

\* line.find(['-', '*']): 0-based position of the first '-' or '*'
FindBullet(line) ==
    (CHOOSE p \in 1..Len(line) :
        /\ line[p] \in {"-", "*"}
        /\ \A q \in 1..(p - 1) : line[q] \notin {"-", "*"}) - 1

\* the two spans of a list item split after the first split_at characters of line
ItemLine(line, split_at) ==
    <<Span(SubSeq(line, 1, split_at), Style("Blue", FALSE)),
      Span(SubSeq(line, split_at + 1, Len(line)), Style("White", FALSE))>>

\* the branch of the numbered lists taken for a trimmed line
IsNumbered(trimmed) ==
    /\ trimmed # <<>>
    /\ IsAsciiDigit(trimmed[1])
    /\ Contains(trimmed, <<".", " ">>)

\* the Line pushed for a line outside a code block that is no fence
render_line(line) ==
    LET trimmed == Trim(line)
    IN  IF StartsWith(trimmed, <<"#", "#", "#", " ">>)
        THEN <<Span(line, Style("Yellow", TRUE))>>
        ELSE IF StartsWith(trimmed, <<"#", "#", " ">>)
        THEN <<Span(line, Style("Magenta", TRUE))>>
        ELSE IF StartsWith(trimmed, <<"#", " ">>)
        THEN <<Span(line, Style("Green", TRUE))>>
        ELSE IF StartsWith(trimmed, <<"-", " ">>) \/ StartsWith(trimmed, <<"*", " ">>)
        THEN ItemLine(line, FindBullet(line) + 2)
        ELSE IF IsNumbered(trimmed)
        THEN LET dot_pos == Find(trimmed, <<".", " ">>) - 1
                 prefix_len == Len(line) - Len(trimmed)
             IN  ItemLine(line, prefix_len + dot_pos + 2)
        ELSE parse_inline_formatting(line)

\* the `for line in md.lines()` loop from line k on
RECURSIVE render_lines(_, _, _)
render_lines(lines, k, in_code_block) ==
    IF k > Len(lines) THEN <<>>
    ELSE IF StartsWith(Trim(lines[k]), <<BACKTICK, BACKTICK, BACKTICK>>)
    THEN <<<<Span(lines[k], Style("DarkGray", FALSE))>>>>
            \o render_lines(lines, k + 1, ~in_code_block)
    ELSE IF in_code_block
    THEN <<<<Span(lines[k], Style("LightYellow", FALSE))>>>>
            \o render_lines(lines, k + 1, in_code_block)
    ELSE <<render_line(lines[k])>> \o render_lines(lines, k + 1, in_code_block)

markdown_to_styled_text(md) == render_lines(Lines(md), 1, FALSE)

(***************************************************************************)
(* markdown_to_styled_text alone: called on lines of up to MaxMdTokens     *)
(* tokens and on a few texts of several lines.                             *)
(***************************************************************************)
MaxMdTokens == 5

\* the pieces the markdown lines are made of
MdTokens ==
    {<<"*", "*">>, <<"a">>, <<" ">>, <<"-", " ">>, <<"1">>, <<".", " ">>, <<BACKTICK>>,
     <<"#", " ">>}

\* the lines made of up to k tokens
RECURSIVE MdLines(_)
MdLines(k) ==
    IF k = 0 THEN {<<>>}
    ELSE LET shorter == MdLines(k - 1)
         IN  shorter \cup {s \o t : s \in shorter, t \in MdTokens}

\* texts of several lines, with and without a code block
FencedTexts ==
    {<<BACKTICK, BACKTICK, BACKTICK, "\n", "1", ".", " ", "*", "*", "a", "*", "*", "\n",
       BACKTICK, BACKTICK, BACKTICK, "\n", "-", " ", "a">>,
     <<"a", "\n", "1", ".", " ", "a", "\n", "\n", "#", "#", " ", "a">>,
     <<BACKTICK, BACKTICK, BACKTICK, "\n", "-", " ", "a">>}

MdTexts == MdLines(MaxMdTokens) \cup FencedTexts

\* no run is under way; a markdown text is at hand
InitRender ==
    /\ IdleRun
    /\ parse_text = <<>>
    /\ parse_fn = "none"
    /\ parse_result = None
    /\ wrap_text = <<>>
    /\ wrap_width = 0
    /\ blank_line \in {<<>>, <<Span(<<>>, PlainStyle)>>}
    /\ wrapped = <<>>
    /\ prompt_task = <<>>
    /\ prompt_existing = <<>>
    /\ built_prompt = None
    /\ md_text \in MdTexts
    /\ styled_text = None
    /\ log_text = <<>>
    /\ log_limit = 0
    /\ truncated = None

\* markdown_to_styled_text(&info.strategy.markdown)
CallMarkdownToStyledText ==
    /\ pc = "idle"
    /\ styled_text = None
    /\ styled_text' = Some(markdown_to_styled_text(md_text))
    /\ UNCHANGED <<md_text, log_text, log_limit, truncated>>
    /\ UNCHANGED <<parse_text, parse_fn, parse_result, wrap_text, wrap_width, blank_line,
                   wrapped, prompt_task, prompt_existing, built_prompt>>
    /\ UNCHANGED <<n, dry_run, interactive, pc, i, strategy_infos, existing_log, origin,
                   review_exit, review_ops, query_count>>
    /\ UNCHANGED reviewVars
    /\ UNCHANGED phase2Vars

NextRender == CallMarkdownToStyledText

SpecRender == InitRender /\ [][NextRender]_vars

(***************************************************************************)
(* parse_strategy alone, on the texts of SpecText and on responses longer  *)
(* than its fallback keeps.                                                *)
(***************************************************************************)
\* k spaces
Spaces(k) == [p \in 1..k |-> " "]

\* responses without the marker that are longer than the fallback keeps: the character
\* after the cut is "b", what is kept is blank but for its first or its last characters
LongResponses ==
    {<<"a">> \o Spaces(FALLBACK_CHARS - 1) \o <<"b">>,
     Spaces(FALLBACK_CHARS - 1) \o <<"a", "b">>,
     Spaces(FALLBACK_CHARS - 2) \o <<"a", "a", "b", " ">>}

\* the responses parse_strategy is called on
Responses == ParseTexts \cup LongResponses

\* no run is under way; a response is at hand
InitResponse ==
    /\ IdleRun
    /\ parse_text \in Responses
    /\ parse_fn = "none"
    /\ parse_result = None
    /\ wrap_text = <<>>
    /\ wrap_width = 0
    /\ blank_line = <<>>
    /\ wrapped = <<>>
    /\ prompt_task = <<>>
    /\ prompt_existing = <<>>
    /\ built_prompt = None
    /\ ScreenIdle

NextResponse == CallParseStrategy

SpecResponse == InitResponse /\ [][NextResponse]_vars

(***************************************************************************)
(* The shortening of a strategy for display: truncate_for_log and the      *)
(* list row of the review.  A Rust string is UTF-8: its length and its     *)
(* slice bounds count bytes, and a slice bound inside a character panics.  *)
(***************************************************************************)
\* the longest text enumerated in full, in characters
MaxLogChars == 3

\* the largest limit enumerated next to the limits of the call sites
MaxLogLimit == 6

\* truncate_for_log(&strategy.markdown, 60) of interactive Phase 1 and of the add action
STRATEGY_LOG_LIMIT == 60

\* truncate_for_log(&result.strategy, 40) of the result list
RESULT_LOG_LIMIT == 40

\* the characters of a displayed text; a character outside ASCII is named by its code point
LogChars == {"a", "U+00E9", "U+20AC", "U+1F600"}

\* char::len_utf8
len_utf8(c) ==
    CASE c \in {"U+00B7", "U+00E9"} -> 2
      [] c \in {"U+20AC", "U+2026"} -> 3
      [] c = "U+1F600" -> 4
      [] OTHER -> 1

RECURSIVE str_len(_)
\* str::len: the length in bytes
str_len(s) == IF s = <<>> THEN 0 ELSE len_utf8(Head(s)) + str_len(Tail(s))

\* the numbers of leading characters of s that end at byte `index`
CharsBefore(s, index) == {k \in 0..Len(s) : str_len(Take(s, k)) = index}

\* str::is_char_boundary
is_char_boundary(s, index) == CharsBefore(s, index) # {}

\* &s[..end]: the characters before byte `end`; a bound off a character boundary panics
SliceTo(s, end) ==
    IF is_char_boundary(s, end)
    THEN [ok |-> TRUE, value |-> Take(s, CHOOSE k \in CharsBefore(s, end) : TRUE)]
    ELSE [ok |-> FALSE, panic |-> "byte index is not a char boundary"]

\* usize::saturating_sub
saturating_sub(a, b) == IF a >= b THEN a - b ELSE 0

\* truncate_for_log(s, max_len)
truncate_for_log(s, max_len) ==
    IF str_len(s) > max_len
    THEN LET head == SliceTo(s, saturating_sub(max_len, 3))
         IN  IF head.ok THEN [ok |-> TRUE, value |-> head.value \o <<".", ".", ".">>]
             ELSE head
    ELSE [ok |-> TRUE, value |-> s]

\* strategy_display of a list row: the highlights joined, or the raw text cut to the
\* width of the list
strategy_display(strategy, list_width) ==
    IF strategy.highlights # <<>>
    THEN [ok |-> TRUE, value |-> Join(strategy.highlights, <<" ", "U+00B7", " ">>)]
    ELSE IF str_len(strategy.raw) > list_width
    THEN LET head == SliceTo(strategy.raw, saturating_sub(list_width, 1))
         IN  IF head.ok THEN [ok |-> TRUE, value |-> head.value \o <<"U+2026">>]
             ELSE head
    ELSE [ok |-> TRUE, value |-> strategy.raw]

RECURSIVE LogTextsOf(_)
\* the texts of exactly k characters
LogTextsOf(k) ==
    IF k = 0 THEN {<<>>}
    ELSE {t \o <<c>> : t \in LogTextsOf(k - 1), c \in LogChars}

\* texts longer than the limits of the call sites: of four-byte characters only, of one
\* ASCII character before them, and of ASCII characters only
LongLogTexts ==
    {[p \in 1..16 |-> "U+1F600"],
     <<"a">> \o [p \in 1..15 |-> "U+1F600"],
     [p \in 1..(STRATEGY_LOG_LIMIT + 1) |-> "a"]}

\* the texts a truncation is called on
LogTexts == UNION {LogTextsOf(k) : k \in 0..MaxLogChars} \cup LongLogTexts

\* the limits a truncation is called with
LogLimits == 0..MaxLogLimit \cup {STRATEGY_LOG_LIMIT, RESULT_LOG_LIMIT}

\* the highlights of the strategy of a list row
RowHighlights == {<<>>, << <<"a">> >>, << <<"a">>, <<"U+00E9">> >>}

\* no run is under way; a text and a limit are at hand
InitTruncate ==
    /\ IdleRun
    /\ parse_text = <<>>
    /\ parse_fn = "none"
    /\ parse_result = None
    /\ wrap_text = <<>>
    /\ wrap_width = 0
    /\ blank_line = <<>>
    /\ wrapped = <<>>
    /\ prompt_task = <<>>
    /\ prompt_existing = <<>>
    /\ built_prompt = None
    /\ md_text = <<>>
    /\ styled_text = None
    /\ log_text \in LogTexts
    /\ log_limit \in LogLimits
    /\ truncated = None

\* everything but the outcome of the truncation stays
TruncateFrame ==
    /\ UNCHANGED <<md_text, styled_text, log_text, log_limit>>
    /\ UNCHANGED <<parse_text, parse_fn, parse_result, wrap_text, wrap_width, blank_line,
                   wrapped, prompt_task, prompt_existing, built_prompt>>
    /\ UNCHANGED <<n, dry_run, interactive, pc, i, strategy_infos, existing_log, origin,
                   review_exit, review_ops, query_count>>
    /\ UNCHANGED reviewVars
    /\ UNCHANGED phase2Vars

\* println!("  C{}: {}", i, truncate_for_log(&strategy.markdown, 60))
CallTruncateForLog ==
    /\ pc = "idle"
    /\ truncated = None
    /\ truncated' = Some([fn |-> "truncate_for_log"] @@ truncate_for_log(log_text, log_limit))
    /\ TruncateFrame

\* the strategy_display of one row of the list
CallStrategyDisplay ==
    /\ pc = "idle"
    /\ truncated = None
    /\ \E highlights \in RowHighlights :
          truncated' = Some([fn |-> "strategy_display"]
                            @@ strategy_display([raw |-> log_text, highlights |-> highlights],
                                                log_limit))
    /\ TruncateFrame

NextTruncate ==
    \/ CallTruncateForLog
    \/ CallStrategyDisplay

SpecTruncate == InitTruncate /\ [][NextTruncate]_vars

(***************************************************************************)
(* Properties of run: Phase 1.                                             *)
(***************************************************************************)
\* positions before step s (1-based) whose record is not failed
Usable(s) == {k \in 1..(s - 1) : ~strategy_infos[k].failed}

\* C1: at every Phase-1 step the exclusion set handed to the prompt builder is exactly
\* the markdown of the not-failed records of the earlier steps, in step order; failed
\* records never appear in it, and the first step gets the empty set.
C1_SequentialDiversity ==
    /\ Len(existing_log) = i
    /\ Len(strategy_infos) = i
    /\ i >= 1 => existing_log[1] = <<>>
    /\ \A s \in 1..i :
          /\ Len(existing_log[s]) = Cardinality(Usable(s))
          /\ \A k \in Usable(s) :
                existing_log[s][Cardinality({j \in Usable(s) : j <= k})] =
                    strategy_infos[k].strategy.markdown
          /\ \A k \in 1..(s - 1) :
                strategy_infos[k].failed =>
                    \A p \in 1..Len(existing_log[s]) :
                        existing_log[s][p] # strategy_infos[k].strategy.markdown

\* three steps done, the second failed: the third step excluded the first record only
C1_Witness ==
    /\ i = 3
    /\ ~dry_run
    /\ ~strategy_infos[1].failed
    /\ strategy_infos[2].failed
    /\ existing_log[2] = <<strategy_infos[1].strategy.markdown>>
    /\ existing_log[3] = <<strategy_infos[1].strategy.markdown>>

(***************************************************************************)
(* Properties of run: Phase 2 and the returned list.                       *)
(***************************************************************************)
\* run has returned from a run that was not a dry run
Returned == pc = "done" /\ ~dry_run

\* no elicitation failed and every implementation ran to success
NoFailure ==
    /\ \A k \in 1..Len(strategy_infos) : ~strategy_infos[k].failed
    /\ \A k \in 1..Len(handles) : handles[k].outcome = "ok"

\* C2: a headless run of n instances in which no elicitation and no implementation fails
\* returns exactly n results, the one at position i with instance_id i and success true.
C2_HeadlessAllSucceed ==
    (Returned /\ ~interactive /\ NoFailure) =>
        /\ Len(results) = n
        /\ \A k \in 1..n : results[k].instance_id = k - 1 /\ results[k].success

\* a headless run of two instances has returned, nothing having failed
C2_Witness ==
    /\ Returned
    /\ ~interactive
    /\ NoFailure
    /\ n = 2
    /\ Len(results) = 2

\* C3: whatever order the implementation tasks finish in, the returned list is ordered by
\* instance index: position k holds the result of the task spawned for record k.
C3_ResultsInInstanceOrder ==
    Returned =>
        /\ Len(results) = Len(strategy_infos)
        /\ \A k \in 1..Len(results) :
              /\ results[k].instance_id = k - 1
              /\ results[k].strategy = strategy_infos[k].strategy.markdown
              /\ results[k].success <=> handles[k].outcome = "ok"

\* the last task finished first and alone succeeded, and its result is still last
C3_Witness ==
    /\ Returned
    /\ Len(results) = 2
    /\ completed = <<1, 0>>
    /\ ~results[1].success
    /\ results[2].success
    /\ results[2].instance_id = 1

\* C4: a failure of one slot (a session that errors or reports failure, a workspace that
\* cannot be created, a task that panics) stays in that slot: run returns one result per
\* record, and each result is what the slot's own outcome makes it, whatever happened to
\* the other slots.
C4_FailureContainment ==
    Returned =>
        /\ Len(results) = Len(strategy_infos)
        /\ \A k \in 1..Len(results) :
              LET r == results[k]
                  o == handles[k].outcome
              IN  /\ r.instance_id = k - 1
                  /\ r.success <=> o = "ok"
                  /\ o = "ok" => r.error = None
                  /\ o = "stream_error" => r.error = Some(SESSION_REPORTED_FAILURE)
                  /\ o = "sdk_error" =>
                        \E e \in SdkErrors : r.error = Some(SessionError(e))
                  /\ o = "ws_error" =>
                        \E e \in IoErrors :
                            r.error = Some(CREATE_WORKSPACE_ERROR_PREFIX \o WorkspaceError(e))
                  /\ o = "panic" =>
                        \E e \in JoinErrors : r.error = Some(JOIN_ERROR_PREFIX \o e)
                  /\ o = "skipped" => r.error = strategy_infos[k].error

\* the first task panicked, the second succeeded all the same
C4_Witness ==
    /\ Returned
    /\ Len(results) = 2
    /\ handles[1].outcome = "panic"
    /\ ~results[1].success
    /\ handles[2].outcome = "ok"
    /\ results[2].success

\* C5: for a record marked failed no workspace is created and no session is started; its
\* result has success false, an empty workspace path, the record's stored error and the
\* record's stored transcript.
C5_FailedRecordSkipped ==
    (pc \in {"join", "done"} /\ ~dry_run) =>
        \A k \in 1..Len(strategy_infos) :
            strategy_infos[k].failed =>
                /\ (k - 1) \notin ws_created
                /\ (k - 1) \notin impl_started
                /\ pc = "done" =>
                      /\ ~results[k].success
                      /\ results[k].workspace_path = <<>>
                      /\ results[k].error.some
                      /\ results[k].error = strategy_infos[k].error
                      /\ results[k].transcript = strategy_infos[k].transcript

\* run returned; the first record was failed, the second got a workspace and a session
C5_Witness ==
    /\ Returned
    /\ Len(results) = 2
    /\ strategy_infos[1].failed
    /\ ~results[1].success
    /\ ws_created = {1}
    /\ impl_started = {1}

(***************************************************************************)
(* Properties of the review and of what run does with its outcome.         *)
(***************************************************************************)
\* C6: after review ends with quit the run is over: the implementation phase is not
\* entered, no workspace is created, no session is started, and main writes nothing.
C6_QuitEndsRun ==
    review_exit = "quit" =>
        /\ pc # "join"
        /\ ws_created = {}
        /\ impl_started = {}
        /\ ~written.strategies
        /\ written.logs = {}

\* C7: the vector review returns on acceptance has at least one record, so that an empty
\* vector returned by review always comes from quit.
C7_AcceptReturnsRecords ==
    /\ review_exit = "accept" => strategy_infos # <<>>
    /\ (pc = "phase2" /\ strategy_infos = <<>>) => review_exit = "quit"

\* C8: delete pressed on the only record, with the key reaching the dispatch, leaves the
\* records and the selection as they are and sets the status 'Cannot remove last strategy'.
C8_SoleRecordKept ==
    [][(KeyDelete /\ Len(strategy_infos) = 1 /\ selected = 0) =>
            /\ strategy_infos' = strategy_infos
            /\ selected' = selected
            /\ status_message' = Status("Cannot remove last strategy", <<>>)]_vars

\* review shows the only record selected and the refusal in the status line
C8_Witness ==
    /\ pc = "review"
    /\ Len(strategy_infos) = 1
    /\ selected = 0
    /\ status_message = Status("Cannot remove last strategy", <<>>)

\* C9: in a dry run the agent is never queried, review is never entered even when the run
\* is interactive, no task is spawned, no workspace is created, and run returns n results,
\* the one at position i with instance_id i, success true, no error and an empty
\* workspace path.
C9_DryRun ==
    dry_run =>
        /\ query_count = 0
        /\ pc \in {"collect", "done"}
        /\ review_exit = "none"
        /\ ~tui_active
        /\ handles = <<>>
        /\ ws_created = {}
        /\ impl_started = {}
        /\ pc = "done" =>
              /\ Len(results) = n
              /\ \A k \in 1..n :
                    /\ results[k].instance_id = k - 1
                    /\ results[k].success
                    /\ results[k].error = None
                    /\ results[k].workspace_path = <<>>

\* an interactive dry run of two instances has returned
C9_Witness ==
    /\ dry_run
    /\ interactive
    /\ pc = "done"
    /\ n = 2
    /\ Len(results) = 2

\* C10: the record collected at Phase-1 step i yields the result with instance_id i,
\* deletions of other records in review notwithstanding.
C10_InstanceIndexStable ==
    Returned =>
        \A k \in 1..Len(results) :
            origin[k] >= 0 => results[k].instance_id = origin[k]

(***************************************************************************)
(* Properties of the review actions.                                       *)
(***************************************************************************)
\* a step of the review loop that keeps the number of records
ReviewStepSameLen ==
    /\ pc = "review"
    /\ pc' = "review"
    /\ Len(strategy_infos') = Len(strategy_infos)

\* C11: an elicitation failure is terminal for its slot: no step of the review
\* re-elicits or replaces a failed record, and when run returns the slot of a failed
\* record holds a failure result for which no implementation session was started.
C11_FailureTerminal ==
    [][/\ ReviewStepSameLen =>
            \A k \in 1..Len(strategy_infos) :
                strategy_infos[k].failed => strategy_infos'[k] = strategy_infos[k]
       /\ (pc' = "done" /\ ~dry_run) =>
            \A k \in 1..Len(strategy_infos) :
                strategy_infos[k].failed =>
                    ~results'[k].success /\ (k - 1) \notin impl_started']_vars

\* the texts edit_strategy_in_editor can return as a revision of markdown
Revisions(markdown) ==
    {edit_strategy_in_editor(markdown, ed).value.value :
        ed \in {x \in EditorOutcomes(markdown) :
                    LET r == edit_strategy_in_editor(markdown, x)
                    IN  r.ok /\ r.value.some /\ r.value.value # markdown}}

\* an Enter on a record for which the editor returned a revision, so that the
\* confirmation query was sent
EditRevised == KeyEnterEdit /\ query_count' # query_count

EditFailures == {FailedInfo(EDIT_ERROR_PREFIX, e) : e \in SdkErrors}

ChatRevisions == {Trim(c) : c \in {x \in ChatFiles : Trim(x) # <<>>}}

\* a 't' on a record after which the status line reports a revision
ChatRevised ==
    /\ KeyChat
    /\ selected < Len(strategy_infos)
    /\ status_message' = Status("C{} strategy revised", <<Decimal(selected)>>)

\* a 't' on a record after which the status line reports anything else (no file, an empty
\* file, a subprocess error)
ChatNotRevised ==
    /\ KeyChat
    /\ selected < Len(strategy_infos)
    /\ status_message' # Status("C{} strategy revised", <<Decimal(selected)>>)

\* C13: a chat that left a non-empty revised strategy replaces the selected record by one
\* whose strategy is parse(revised text), with manually_edited true and failed false, and
\* leaves the other records alone; a chat with any other outcome leaves the record vector
\* exactly as it was.
C13_ChatReplacesOrKeeps ==
    [][/\ ChatRevised =>
            /\ Len(strategy_infos') = Len(strategy_infos)
            /\ \E revised \in ChatRevisions :
                  strategy_infos'[selected + 1].strategy = Strategy_parse(revised)
            /\ strategy_infos'[selected + 1].manually_edited
            /\ ~strategy_infos'[selected + 1].failed
            /\ \A j \in 1..Len(strategy_infos) :
                  j # selected + 1 => strategy_infos'[j] = strategy_infos[j]
       /\ ChatNotRevised => strategy_infos' = strategy_infos]_vars

C13_Witness ==
    /\ pc = "review"
    /\ status_message = Status("C{} strategy revised", <<Decimal(0)>>)
    /\ strategy_infos[1].manually_edited
    /\ strategy_infos[1].strategy \in {Strategy_parse(r) : r \in ChatRevisions}

\* the positions of the records of strategy_infos that are not failed
NotFailed == {k \in 1..Len(strategy_infos) : ~strategy_infos[k].failed}

\* the exclusion list the last strategy prompt was built from
LastExcluded == existing_log'[Len(existing_log')]

SideChannelFailure ==
    {"Editor error: {}", "Clipboard error: {}", "Clipboard unavailable", "Chat error: {}"}

\* an Enter, 'c' or 't' on a record that ends with a side-channel failure reported
SideChannelFailed ==
    /\ KeyEnterEdit \/ KeyCopy \/ KeyChat
    /\ selected < Len(strategy_infos)
    /\ status_message'.some
    /\ status_message'.value.fmt \in SideChannelFailure

\* C15: a failure of the editor invocation, of the clipboard (unavailable, or set_text
\* error) or of the chat subprocess (spawn, exit status, read) changes the status message
\* and nothing else: the record vector, every field of every record, the selection and the
\* state of the run are the same before and after the failing action.
C15_SideChannelFailureOnlyStatus ==
    [][SideChannelFailed =>
            /\ strategy_infos' = strategy_infos
            /\ UNCHANGED <<n, dry_run, interactive, pc, i, selected, show_help_popup,
                           clipboard, tui_active, existing_log, origin, review_exit,
                           review_ops, query_count>>
            /\ UNCHANGED phase2Vars]_vars

\* a clipboard failure reported with a record selected
C15_Witness ==
    /\ pc = "review"
    /\ selected < Len(strategy_infos)
    /\ status_message \in
          {Status("Clipboard error: {}", <<e>>) : e \in IoErrors}
              \cup {Status("Clipboard unavailable", <<>>)}

\* C16 as stated: while the help overlay is visible, a key press only dismisses the overlay: review
\* goes on, the record vector and the selection are unchanged; and '?' with the overlay
\* hidden makes it visible and changes neither the vector nor the selection.
C16_OverlayConsumesKey ==
    [][/\ (pc = "review" /\ show_help_popup) =>
            /\ pc' = "review"
            /\ ~show_help_popup'
            /\ strategy_infos' = strategy_infos
            /\ selected' = selected
       /\ KeyHelp =>
            /\ pc' = "review"
            /\ show_help_popup'
            /\ strategy_infos' = strategy_infos
            /\ selected' = selected]_vars

\* C16, amended: while the help overlay is visible, a key press other than Ctrl+C only
\* dismisses the overlay: review goes on, the record vector and the selection are
\* unchanged; Ctrl+C ends review with an empty vector whether or not the overlay is
\* visible; and '?' with the overlay hidden makes it visible and changes neither the vector
\* nor the selection.
C16_OverlayConsumesKeyButCtrlC ==
    [][/\ (pc = "review" /\ show_help_popup /\ ~KeyCtrlC) =>
            /\ pc' = "review"
            /\ ~show_help_popup'
            /\ strategy_infos' = strategy_infos
            /\ selected' = selected
       /\ KeyCtrlC => pc' # "review" /\ strategy_infos' = <<>> /\ review_exit' = "quit"
       /\ KeyHelp =>
            /\ pc' = "review"
            /\ show_help_popup'
            /\ strategy_infos' = strategy_infos
            /\ selected' = selected]_vars

\* the overlay shown over a record list
C16_Witness ==
    /\ pc = "review"
    /\ show_help_popup
    /\ Len(strategy_infos) = 1
    /\ selected = 0

\* C17: with n records, Up/'k' moves the selection from 0 to n (the Accept row) and from
\* any other row to the row above; Down/'j' moves it from n to 0 and from any other row to
\* the row below; neither changes the record vector.
C17_SelectionWraps ==
    [][/\ KeyUp =>
            /\ selected' = IF selected = 0 THEN Len(strategy_infos) ELSE selected - 1
            /\ strategy_infos' = strategy_infos
       /\ KeyDown =>
            /\ selected' = IF selected = Len(strategy_infos) THEN 0 ELSE selected + 1
            /\ strategy_infos' = strategy_infos
       /\ pc' = "review" => selected' \in 0..Len(strategy_infos')]_vars

\* the first of two records selected: reached from the Accept row by Down, or by Up twice
C17_Witness ==
    /\ pc = "review"
    /\ Len(strategy_infos) = 2
    /\ selected = 0

(***************************************************************************)
(* Properties of the functions of strategy.rs.                             *)
(***************************************************************************)
\* the text X when the text at hand is "STRATEGY: X"
AfterPrefix == SubSeq(parse_text, Len(Prefixed(<<>>)) + 1, Len(parse_text))

\* parse_strategy has been called on "STRATEGY: X" for a single-line X that is not blank
ParsedSingleLine ==
    /\ parse_fn = "parse_strategy"
    /\ Len(parse_text) >= Len(Prefixed(<<>>))
    /\ SubSeq(parse_text, 1, Len(Prefixed(<<>>))) = Prefixed(<<>>)
    /\ \A k \in 1..Len(AfterPrefix) : AfterPrefix[k] # "\n"
    /\ Trim(AfterPrefix) # <<>>

\* C18: for every single-line text X that is not empty after trimming,
\* parse_strategy("STRATEGY: " + X) returns a Strategy whose markdown is X trimmed.
C18_RoundTrip ==
    ParsedSingleLine => parse_result.value.markdown = Trim(AfterPrefix)

\* the round trip of an X with white space on both sides
C18_Witness ==
    /\ ParsedSingleLine
    /\ AfterPrefix = <<" ", "a", " ", "\r">>
    /\ parse_result.value.markdown = <<"a">>

\* C19: the raw field Strategy::parse produces holds no backtick and no two consecutive
\* asterisks, whatever the text.
C19_RawClean ==
    parse_fn = "Strategy::parse" =>
        LET raw == parse_result.value.raw
        IN  /\ \A k \in 1..Len(raw) : raw[k] # BACKTICK
            /\ \A k \in 1..(Len(raw) - 1) : ~(raw[k] = "*" /\ raw[k + 1] = "*")

\* the pieces of s between its ** markers, the markers taken leftmost first
RECURSIVE BetweenMarkers(_)
BetweenMarkers(s) ==
    LET m == Find(s, <<"*", "*">>)
    IN  IF m = 0 THEN <<s>>
        ELSE <<SubSeq(s, 1, m - 1)>> \o BetweenMarkers(SubSeq(s, m + 2, Len(s)))

\* the pieces enclosed by a balanced pair: those after an opening marker (the 2nd, 4th,
\* ... piece) that a closing marker follows, in order
Enclosed(s) ==
    LET pieces == BetweenMarkers(s)
    IN  [k \in 1..((Len(pieces) - 1) \div 2) |-> pieces[2 * k]]

NonEmpty(s) == s # <<>>

\* the trimmed enclosed pieces that are not empty, in order
EnclosedPhrases(s) ==
    LET trimmed == [k \in 1..Len(Enclosed(s)) |-> Trim(Enclosed(s)[k])]
    IN  SelectSeq(trimmed, NonEmpty)

\* C20: the highlights Strategy::parse produces are exactly the trimmed, non-empty phrases
\* enclosed by the successive balanced ** ... ** pairs of the text, from left to right; a
\* span opened by a ** that is never closed gives no highlight.
C20_HighlightsAreEnclosedPhrases ==
    parse_fn = "Strategy::parse" =>
        parse_result.value.highlights = EnclosedPhrases(parse_text)

(***************************************************************************)
(* Properties of the reflow.                                               *)
(***************************************************************************)
\* C21: reflowing, at the same width, a text that was reflowed gives the same text again:
\* the same lines, the same spans, the same styles.
C21_ReflowIdempotent ==
    \A k \in 2..Len(wrapped) : wrapped[k] = wrapped[1]

\* a text that the first reflow changed and the second did not
C21_Witness ==
    /\ Len(wrapped) = 2
    /\ wrap_width = 2
    /\ wrapped[1] # wrap_text
    /\ Len(wrapped[1]) > Len(wrap_text)
    /\ wrapped[2] = wrapped[1]

\* the characters of a line from span k on, each with the style of its span
RECURSIVE StyledChars(_, _)
StyledChars(line, k) ==
    IF k > Len(line) THEN <<>>
    ELSE [p \in 1..Len(line[k].content) |-> <<line[k].content[p], line[k].style>>]
            \o StyledChars(line, k + 1)

\* the styled characters of the lines of a text from line k on
RECURSIVE TextChars(_, _)
TextChars(text, k) ==
    IF k > Len(text) THEN <<>>
    ELSE StyledChars(text[k], 1) \o TextChars(text, k + 1)

\* C22: the characters of the lines a reflow returns, read in order, are the characters of
\* the lines it was given, none dropped, added or reordered, and each carries the style of
\* the span it came from.
C22_ReflowLossless ==
    \A k \in 1..Len(wrapped) : TextChars(wrapped[k], 1) = TextChars(wrap_text, 1)

\* a line of two styles broken into three lines
C22_Witness ==
    /\ Len(wrapped) >= 1
    /\ Len(wrap_text) = 1
    /\ Len(wrapped[1]) = 3
    /\ \E p, q \in 1..Len(wrap_text[1]) : wrap_text[1][p].style # wrap_text[1][q].style
    /\ TextChars(wrapped[1], 1) = TextChars(wrap_text, 1)

\* the number of characters of a line
LineWidth(line) == Len(StyledChars(line, 1))

\* C23: with a width w >= 1 every line a reflow returns has at most w characters; with
\* w = 0 the lines are returned unchanged.
C23_ReflowFitsWidth ==
    \A k \in 1..Len(wrapped) :
        /\ wrap_width >= 1 => \A l \in 1..Len(wrapped[k]) : LineWidth(wrapped[k][l]) <= wrap_width
        /\ wrap_width = 0 => wrapped[k] = wrap_text

\* a line of four characters broken at width 2 into full lines
C23_Witness ==
    /\ Len(wrapped) >= 1
    /\ wrap_width = 2
    /\ Len(wrap_text) = 1
    /\ LineWidth(wrap_text[1]) = 4
    /\ Len(wrapped[1]) = 2
    /\ \A l \in 1..2 : LineWidth(wrapped[1][l]) = 2

(***************************************************************************)
(* Properties of the records, the prompts and the results.                 *)
(***************************************************************************)
NotBacktick(c) == c # BACKTICK

\* the extraction pass on markdown, by pieces: raw is the pieces between the ** markers
\* without their backticks, put together; highlights are the enclosed pieces without their
\* backticks, trimmed, those that are not empty. This is what extract_formatting computes
\* character by character (ExtractionByPieces).
DerivedRaw(markdown) ==
    LET pieces == BetweenMarkers(markdown)
    IN  Join([k \in 1..Len(pieces) |-> SelectSeq(pieces[k], NotBacktick)], <<>>)

DerivedHighlights(markdown) ==
    LET enclosed == Enclosed(markdown)
        phrases == [k \in 1..Len(enclosed) |-> Trim(SelectSeq(enclosed[k], NotBacktick))]
    IN  SelectSeq(phrases, NonEmpty)

\* the extraction by pieces agrees with Strategy::parse on every text
ExtractionByPieces ==
    parse_fn = "Strategy::parse" =>
        /\ parse_result.value.raw = DerivedRaw(parse_text)
        /\ parse_result.value.highlights = DerivedHighlights(parse_text)

\* C24: at every point of a run, the raw and highlights of every record, failed sentinels
\* included, are what the extraction pass of Strategy::parse yields on the record's
\* markdown.
C24_StrategyDerived ==
    \A k \in 1..Len(strategy_infos) :
        LET strategy == strategy_infos[k].strategy
        IN  /\ strategy.raw = DerivedRaw(strategy.markdown)
            /\ strategy.highlights = DerivedHighlights(strategy.markdown)

\* whether the last line of text that is not blank begins with "STRATEGY:"
EndsWithReplyFormat(text) ==
    LET ls == Lines(text)
        ink == {k \in 1..Len(ls) : Trim(ls[k]) # <<>>}
    IN  /\ ink # {}
        /\ LET last == ls[CHOOSE k \in ink : \A j \in ink : j <= k]
           IN  Take(last, Len(STRATEGY_MARKER)) = STRATEGY_MARKER

\* C25 as stated: whatever the task and the list of existing strategies, empty or not, the
\* last non-blank content of the text build_strategy_prompt returns is the line beginning
\* "STRATEGY:".
C25_EndsWithReplyFormat ==
    built_prompt.some => EndsWithReplyFormat(built_prompt.value)

\* the exclusion block for a list that is not empty: the header, then the strategies
\* numbered from 1, one to a line
ExclusionBlock(existing) ==
    Join(<<EXCLUSION_HEADER>>
            \o [k \in 1..Len(existing) |-> Decimal(k) \o <<".", " ">> \o existing[k]],
         <<"\n">>)

\* C25, amended: for an empty list the last non-blank content of the text is the line
\* beginning "STRATEGY:"; for a list that is not empty the text ends with the exclusion
\* block, and the last non-blank content before the block is the line beginning
\* "STRATEGY:".
C25_ReplyFormatThenExclusions ==
    built_prompt.some =>
        LET text == built_prompt.value
            block == ExclusionBlock(prompt_existing)
            cut == Len(text) - Len(block)
        IN  IF prompt_existing = <<>> THEN EndsWithReplyFormat(text)
            ELSE /\ cut >= 0
                 /\ SubSeq(text, cut + 1, Len(text)) = block
                 /\ EndsWithReplyFormat(SubSeq(text, 1, cut))

\* a prompt built for two existing strategies
C25_Witness ==
    /\ built_prompt.some
    /\ Len(prompt_existing) = 2
    /\ ~EndsWithReplyFormat(built_prompt.value)

\* number of non-overlapping occurrences of pat in s, left to right
RECURSIVE Occurrences(_, _)
Occurrences(s, pat) ==
    LET at == Find(s, pat)
    IN  IF at = 0 THEN 0
        ELSE 1 + Occurrences(SubSeq(s, at + Len(pat), Len(s)), pat)

\* the line of the exclusion block for the k-th existing strategy
NumberedEntry(existing, k) == Decimal(k) \o <<".", " ">> \o existing[k]

\* the block is in the text exactly when the list is not empty
BlockIffExisting(text, existing) ==
    Contains(text, EXCLUSION_HEADER) <=> (existing # <<>>)

\* every existing strategy is listed once under its number, in the order given
ListedOnceInOrder(text, existing) ==
    /\ \A k \in 1..Len(existing) : Occurrences(text, NumberedEntry(existing, k)) = 1
    /\ \A j, k \in 1..Len(existing) :
            j < k => Find(text, NumberedEntry(existing, j)) < Find(text, NumberedEntry(existing, k))
    /\ existing # <<>> => Occurrences(text, EXCLUSION_HEADER) = 1

\* C26: the text build_strategy_prompt returns contains the exclusion block exactly when the
\* list of existing strategies is not empty; the block lists every existing strategy once,
\* numbered from 1 in the order given; and the task text is embedded in both cases.
C26_ExclusionBlock ==
    built_prompt.some =>
        /\ BlockIffExisting(built_prompt.value, prompt_existing)
        /\ ListedOnceInOrder(built_prompt.value, prompt_existing)
        /\ Contains(built_prompt.value, prompt_task)

\* outcomes of a task that make run_instance build a failure result from an error
ErrorOutcomes == {"sdk_error", "stream_error", "ws_error"}

\* the result r holds the text of the error behind the outcome, in its error field or in
\* its transcript
CarriesErrorText(r, outcome) ==
    /\ r.error.some
    /\ \E e \in (IF outcome = "ws_error" THEN IoErrors ELSE SdkErrors) :
            Contains(r.error.value, e) \/ Contains(r.transcript, e)

\* the failure result of the finished task h holds the error text and a transcript that
\* includes the strategy transcript the task captured
FailureCarriesTranscript(h) ==
    LET r == h.output.value.value
    IN  /\ ~r.success
        /\ CarriesErrorText(r, h.outcome)
        /\ h.strategy_transcript # <<>>
        /\ Contains(r.transcript, h.strategy_transcript)

\* C27: every failure result caused by an implementation-session error or by a
\* workspace-creation error carries the error text and the transcript produced up to that
\* point, which includes the slot's strategy transcript.
C27_FailureCarriesTranscript ==
    \A k \in 1..Len(handles) :
        (handles[k].done /\ handles[k].outcome \in ErrorOutcomes) =>
            FailureCarriesTranscript(handles[k])

\* the slots whose finished task called run_implementation
SessionSlots ==
    {handles[k].instance_id : k \in {j \in 1..Len(handles) :
        handles[j].done /\ ~handles[j].failed /\ handles[j].outcome # "ws_error"}}

\* one strategy query per Phase-1 step, one task per record, sessions only of finished tasks
\* of records that are not failed
OneTaskPerSlot ==
    ~dry_run =>
        /\ query_count = i
        /\ query_count <= n
        /\ pc \in {"join", "done"} =>
              /\ query_count = n
              /\ Len(handles) = n
              /\ Len(strategy_infos) = n
              /\ \A k \in 1..n : handles[k].instance_id = k - 1
        /\ impl_started = SessionSlots
        /\ \A k \in 1..Len(strategy_infos) :
              strategy_infos[k].failed => (k - 1) \notin impl_started

\* a step asks at most one strategy query, never runs a finished task again, and starts a
\* session only for a task that was not finished and for a slot that had none
NoSecondCall ==
    /\ query_count' \in {query_count, query_count + 1}
    /\ query_count' # query_count => (pc = "collect" /\ i' = i + 1)
    /\ handles # <<>> =>
          /\ Len(handles') = Len(handles)
          /\ \A k \in 1..Len(handles) : handles[k].done => handles'[k] = handles[k]
    /\ impl_started' # impl_started =>
          \E k \in 1..Len(handles) :
              /\ ~handles[k].done
              /\ handles'[k].done
              /\ handles[k].instance_id \notin impl_started
              /\ impl_started' = impl_started \cup {handles[k].instance_id}

\* C28: no retry and one task per slot: in a headless run that is not a dry run the agent is
\* asked for a strategy once per slot in Phase 1, one Phase-2 task is spawned per record,
\* each slot starts at most one implementation session, and after a failure of either kind
\* no further agent call is made for that slot.
C28_NoRetryOneTaskPerSlot == []OneTaskPerSlot /\ [][NoSecondCall]_vars

\* run returned from two slots: the first failed its strategy query, the second its session
C28_Witness ==
    /\ Returned
    /\ ~dry_run
    /\ n = 2
    /\ query_count = 2
    /\ strategy_infos[1].failed
    /\ handles[2].outcome = "sdk_error"
    /\ impl_started = {1}

\* position of a control point of run in the order of the phases: the elicitation loop,
\* the review, the implementation phase (spawn, then join), the return
PhaseRank(p) ==
    CASE p = "collect" -> 0
      [] p = "review" -> 1
      [] p = "phase2" -> 2
      [] p = "join" -> 2
      [] p = "done" -> 3
      [] OTHER -> 0

\* the review is entered only when asked for outside a dry run; past the loop all n steps
\* have completed; tasks, workspaces and sessions exist only in the implementation phase
\* or after it, and in an interactive run only after review has returned
PhaseOrder ==
    /\ pc = "review" => (interactive /\ ~dry_run)
    /\ pc \in {"review", "phase2", "join", "done"} =>
          (i = n /\ Len(existing_log) >= n)
    /\ (handles # <<>> \/ ws_created # {} \/ impl_started # {}) =>
          /\ pc \in {"join", "done"}
          /\ ~dry_run
          /\ interactive => review_exit # "none"

\* a step never goes back to an earlier phase, the loop is left only after n steps, the
\* review is entered from the loop and skipped only when it is not requested
PhaseStep ==
    /\ PhaseRank(pc') >= PhaseRank(pc)
    /\ (pc = "collect" /\ pc' # "collect") => i = n
    /\ (pc' = "review" /\ pc # "review") => pc = "collect"
    /\ (pc = "collect" /\ pc' \in {"phase2", "join", "done"}) => ~(interactive /\ ~dry_run)
    /\ (pc' = "join" /\ pc # "join") =>
          (pc = IF interactive THEN "phase2" ELSE "collect")
    /\ (pc' = "done" /\ pc # "done") => (pc = "join" \/ (dry_run /\ pc = "collect"))

\* C29: phase ordering: the run passes through collecting strategies, then reviewing
\* strategies only if interactive is set and dry_run is not, then implementing, then done,
\* never backwards; no workspace is created and no implementation session is started before
\* all n elicitation steps have completed and review, if entered, has returned.
C29_PhaseOrdering == []PhaseOrder /\ [][PhaseStep]_vars

\* an interactive run accepted in review, returned with a workspace and a session
C29_Witness ==
    /\ Returned
    /\ interactive
    /\ review_exit = "accept"
    /\ ws_created # {}
    /\ impl_started # {}

\* the 1-based positions of the records of infos other than slot idx that are not failed,
\* in index order
OtherLivePositions(infos, idx) ==
    SelectSeq([j \in 1..Len(infos) |-> j], LAMBDA j : j - 1 # idx /\ ~infos[j].failed)

\* the markdown of every record j # idx with failed = false, in index order
OtherLiveMarkdown(infos, idx) ==
    LET at == OtherLivePositions(infos, idx)
    IN  [m \in 1..Len(at) |-> infos[at[m]].strategy.markdown]

\* the transcript of the result of the finished task h starts with the strategy section and
\* the implementation prompt built from the list excluded
PromptBuiltFrom(h, excluded) ==
    LET full_prompt == build_implementation_prompt(TaskPrompt, h.strategy, excluded)
        head == STRATEGY_SELECTION_SECTION \o h.strategy_transcript \o <<"\n", "\n">>
                    \o PROMPT_SECTION \o full_prompt
        transcript == h.output.value.value.transcript
    IN  /\ Len(transcript) >= Len(head)
        /\ SubSeq(transcript, 1, Len(head)) = head

\* the list every task captured is the markdown of the other records that are not failed,
\* as the record vector stands after review, and a session that ran was given the prompt
\* built from that list
ExclusionSnapshot ==
    \A k \in 1..Len(handles) :
        /\ k \in 1..Len(strategy_infos)
        /\ handles[k].excluded = OtherLiveMarkdown(strategy_infos, k - 1)
        /\ Len(handles[k].excluded) =
              Cardinality({j \in 1..Len(strategy_infos) :
                              j # k /\ ~strategy_infos[j].failed})
        /\ \A j \in 1..Len(strategy_infos) :
              strategy_infos[j].failed =>
                  \A m \in 1..Len(handles[k].excluded) :
                      handles[k].excluded[m] # strategy_infos[j].strategy.markdown
        /\ (handles[k].done /\ handles[k].outcome \in {"ok", "stream_error"}) =>
              PromptBuiltFrom(handles[k], OtherLiveMarkdown(strategy_infos, k - 1))

\* once the tasks are spawned neither a captured list nor the record vector changes
SnapshotKept ==
    handles # <<>> =>
        /\ strategy_infos' = strategy_infos
        /\ Len(handles') = Len(handles)
        /\ \A k \in 1..Len(handles) : handles'[k].excluded = handles[k].excluded

SelectionInRange ==
    pc = "review" => (0 <= selected /\ selected <= Len(strategy_infos))

\* a delete that removed a record keeps the index when a record follows, and selects the
\* sentinel row when the last record was removed
DeleteKeepsOrSentinel ==
    (KeyDelete /\ Len(strategy_infos') < Len(strategy_infos)) =>
        /\ Len(strategy_infos') = Len(strategy_infos) - 1
        /\ IF selected < Len(strategy_infos) - 1
           THEN /\ selected' = selected
                /\ strategy_infos'[selected' + 1] = strategy_infos[selected + 2]
           ELSE selected' = Len(strategy_infos')

\* C31: selection range invariant: after any sequence of key presses in review the selected
\* index satisfies 0 <= selected <= len(records), len(records) being the sentinel row; after
\* a delete the selection is the same index, now the following record, or the sentinel when
\* the last record was deleted.
C31_SelectionRange == []SelectionInRange /\ [][DeleteKeepsOrSentinel]_vars

\* the second of two records was deleted: the selection is the sentinel row
C31_Witness ==
    /\ pc = "review"
    /\ status_message = Status("Removed C{}", <<Decimal(1)>>)
    /\ Len(strategy_infos) = 1
    /\ selected = 1

\* run has returned a result list with one entry per record
DoneWithAllResults ==
    /\ pc = "done"
    /\ Len(results) = Len(strategy_infos)
    /\ Len(results) = n

\* C32: join-all termination: in a headless run that is not a dry run, if every
\* elicitation call, workspace creation and implementation session eventually returns, the
\* run eventually reaches Done and returns a result list with one entry per record,
\* whichever slots failed.
C32_JoinAllTerminates == ~dry_run => <>DoneWithAllResults

\* run returned two results although the first task panicked and the second failed to
\* create its workspace
C32_Witness ==
    /\ Returned
    /\ DoneWithAllResults
    /\ n = 2
    /\ handles[1].outcome = "panic"
    /\ handles[2].outcome = "ws_error"

\* the characters of a line without their styles
PlainChars(line) == [p \in 1..LineWidth(line) |-> StyledChars(line, 1)[p][1]]

\* the width the break rule gives an output line that starts after the first offset
\* characters of chars and ends before chars is exhausted: up to the last space among the
\* up-to-w characters that could be placed on it, all of them when there is no space
RuleWidth(chars, offset, w) ==
    LET last == IF offset + w <= Len(chars) THEN offset + w ELSE Len(chars)
        spaces == {p \in (offset + 1)..last : chars[p] = " "}
    IN  IF spaces = {} THEN last - offset
        ELSE (CHOOSE p \in spaces : \A q \in spaces : q <= p) - offset

\* every line of out but the last has the width of the break rule, and at least one
\* character
BrokenByRule(line, out, w) ==
    \A l \in 1..(Len(out) - 1) :
        LET offset == Len(TextChars(SubSeq(out, 1, l - 1), 1))
        IN  /\ LineWidth(out[l]) >= 1
            /\ LineWidth(out[l]) = RuleWidth(PlainChars(line), offset, w)

\* C33: reflow break rule: for every styled line of any number of spans and every width
\* w >= 1, an output line that ends before the input line is exhausted ends right after
\* the last space among the up-to-w characters that could have been placed on it; a break
\* inside a word happens only when those characters hold no space, and then takes at least
\* one character.
C33_ReflowBreakRule ==
    (wrap_width >= 1 /\ Len(wrap_text) = 1 /\ Len(wrapped) >= 1) =>
        BrokenByRule(wrap_text[1], wrapped[1], wrap_width)

(***************************************************************************)
(* Properties of the markdown render.                                      *)
(***************************************************************************)
\* the markdown at hand is one line that is no code fence, and it was rendered
RenderedOneLine ==
    /\ styled_text.some
    /\ Len(Lines(md_text)) = 1
    /\ Len(styled_text.value) = 1
    /\ ~StartsWith(Trim(Lines(md_text)[1]), <<BACKTICK, BACKTICK, BACKTICK>>)

\* the number of whitespace characters a line begins with
LeadingWhitespace(line) == IF FirstInk(line) = 0 THEN Len(line) ELSE FirstInk(line) - 1

\* the number of digits s begins with
DigitRun(s) ==
    IF \A p \in 1..Len(s) : IsAsciiDigit(s[p]) THEN Len(s)
    ELSE (CHOOSE p \in 1..Len(s) :
            ~IsAsciiDigit(s[p]) /\ \A q \in 1..(p - 1) : IsAsciiDigit(s[q])) - 1

\* the length of the marker of a numbered item: leading whitespace, a run of digits and
\* ". "; 0 for a line that is no numbered item
NumberedMarker(line) ==
    LET lead == LeadingWhitespace(line)
        digits == DigitRun(SubSeq(line, lead + 1, Len(line)))
    IN  IF digits >= 1 /\ Take(Skip(line, lead + digits), 2) = <<".", " ">>
        THEN lead + digits + 2
        ELSE 0

\* the length of the marker of a bullet item: leading whitespace and "- " or "* "; 0 for a
\* line that is no bullet item
BulletMarker(line) ==
    LET lead == LeadingWhitespace(line)
    IN  IF Take(Skip(line, lead), 2) \in {<<"-", " ">>, <<"*", " ">>}
        THEN lead + 2
        ELSE 0

\* the spans the inline formatter makes of a text
InlineSpans(text) == inline_scan(text, 1, <<>>, <<>>, FALSE, FALSE)

\* the rendered line is the marker followed by the inline-formatted remainder
ItemFormatted(line, marker, out) ==
    /\ out # <<>>
    /\ out[1].content = SubSeq(line, 1, marker)
    /\ [k \in 1..(Len(out) - 1) |-> out[k + 1].content] =
          [k \in 1..Len(InlineSpans(SubSeq(line, marker + 1, Len(line)))) |->
              InlineSpans(SubSeq(line, marker + 1, Len(line)))[k].content]
    /\ \A k \in 2..Len(out) :
          /\ ~Contains(out[k].content, <<"*", "*">>)
          /\ ~Contains(out[k].content, <<BACKTICK>>)

\* C34: the render passes the remainder of every bullet item and numbered item through the
\* inline formatter: the "**" and backtick toggles of a list item's text give separately
\* styled spans and the marker characters are not emitted, as for default text lines.
C34_ListItemsFormatted ==
    RenderedOneLine =>
        LET line == Lines(md_text)[1]
            out == styled_text.value[1]
        IN  /\ BulletMarker(line) > 0 => ItemFormatted(line, BulletMarker(line), out)
            /\ NumberedMarker(line) > 0 => ItemFormatted(line, NumberedMarker(line), out)

\* the render took the line for a numbered item: a marker span and a rest span, and the
\* line is no bullet item
ClassifiedNumbered(line, out) ==
    /\ Len(out) = 2
    /\ out[1].style = Style("Blue", FALSE)
    /\ out[2].style = Style("White", FALSE)
    /\ BulletMarker(line) = 0

\* C35: the render classifies a line outside a code block as a numbered item exactly when,
\* after leading whitespace, it starts with a run of digits immediately followed by ". ";
\* the marker span is then the text up to and including that ". " and the second span is
\* the rest of the line.
C35_NumberedItems ==
    RenderedOneLine =>
        LET line == Lines(md_text)[1]
            out == styled_text.value[1]
            marker == NumberedMarker(line)
        IN  /\ ClassifiedNumbered(line, out) <=> marker > 0
            /\ marker > 0 =>
                  /\ out[1].content = SubSeq(line, 1, marker)
                  /\ out[2].content = SubSeq(line, marker + 1, Len(line))

(***************************************************************************)
(* Properties of parse_strategy's fallback.                                *)
(***************************************************************************)
\* the first k characters of text, all of it when it is shorter
FirstChars(text, k) == [p \in 1..MinOf(Len(text), k) |-> text[p]]

\* t is s without the whitespace at its two ends
IsTrimOf(t, s) ==
    IF t = <<>> THEN \A p \in 1..Len(s) : IsWhitespace(s[p])
    ELSE /\ ~IsWhitespace(t[1])
         /\ ~IsWhitespace(t[Len(t)])
         /\ \E a \in 0..(Len(s) - Len(t)) :
              /\ SubSeq(s, a + 1, a + Len(t)) = t
              /\ \A p \in 1..a : IsWhitespace(s[p])
              /\ \A p \in (a + Len(t) + 1)..Len(s) : IsWhitespace(s[p])

\* C36: parse_strategy is total and falls back gracefully: for every response text it
\* returns a Strategy, and when the text holds no "STRATEGY:" marker the markdown returned
\* is the first 500 characters of the response, trimmed.
C36_ParseStrategyFallback ==
    parse_fn = "parse_strategy" =>
        /\ parse_result.some
        /\ DOMAIN parse_result.value = {"markdown", "raw", "highlights"}
        /\ ~Contains(parse_text, STRATEGY_MARKER) =>
              IsTrimOf(parse_result.value.markdown, FirstChars(parse_text, FALLBACK_CHARS))

\* a response of 501 characters whose 500th is kept and whose 501st is cut
C36_Witness ==
    /\ parse_fn = "parse_strategy"
    /\ Len(parse_text) = FALLBACK_CHARS + 1
    /\ parse_text[FALLBACK_CHARS] = "a"
    /\ parse_text[FALLBACK_CHARS + 1] = "b"
    /\ parse_result.value.markdown = <<"a">>

(***************************************************************************)
(* Properties of the review's terminal handling and of its records.        *)
(***************************************************************************)
\* the handler of an external interaction ran: the editor on Enter, the query of 'o', the
\* chat on 't'
ExternalInteraction ==
    \/ KeyEnterEdit
    \/ KeyAdd
    \/ KeyChat /\ selected < Len(strategy_infos)

\* a key press is processed only in presentation mode, and after the return from review
\* presentation mode has been left
PresentationPaired ==
    /\ pc = "review" => tui_active
    /\ pc \in {"phase2", "join", "done"} => ~tui_active

\* C37: suspend/resume pairing: every time the review leaves presentation mode for an
\* external interaction (editor on Enter, elicitation on 'o', chat on 't') it re-enters
\* presentation mode before the next key press is processed, for every outcome of the
\* interaction, its failure included; on every return from review, by accept or by quit,
\* presentation mode has been left.
C37_SuspendResumePaired ==
    []PresentationPaired /\ [][ExternalInteraction => (tui_active' /\ pc' = "review")]_vars

\* the query of 'o' failed and the review is back in presentation mode
C37_Witness ==
    /\ pc = "review"
    /\ tui_active
    /\ status_message.some
    /\ status_message.value.fmt = "C{} failed: {}"

\* failed exactly when an error is present, and a failed record is not manually edited
FlagsConsistent(info) ==
    /\ info.failed <=> info.error.some
    /\ info.failed => ~info.manually_edited

\* C38: record flag consistency: at every point of a run every StrategyRecord has
\* failed = true if and only if its error is present, and failed = true implies
\* manually_edited = false; for the records of Phase 1 and for every record produced by
\* edit, chat revision and add.
C38_RecordFlagsConsistent ==
    \A k \in 1..Len(strategy_infos) : FlagsConsistent(strategy_infos[k])

\* the review holds a failed record next to a manually edited one
C38_Witness ==
    /\ pc = "review"
    /\ review_ops > 0
    /\ \E k \in 1..Len(strategy_infos) : strategy_infos[k].failed
    /\ \E k \in 1..Len(strategy_infos) : strategy_infos[k].manually_edited

\* 'o' keeps the selected index and appends one record; from the sentinel row the selected
\* row is then the appended record
AddKeepsSelection ==
    KeyAdd =>
        /\ selected' = selected
        /\ Len(strategy_infos') = Len(strategy_infos) + 1
        /\ selected = Len(strategy_infos) =>
              /\ selected' = Len(strategy_infos') - 1
              /\ origin'[selected' + 1] = -1

\* Enter on a record's row does not accept: the review goes on
EnterOnRecordEdits ==
    (pc = "review" /\ selected < Len(strategy_infos)) =>
        (pc' = "review" \/ review_exit' = "quit")

\* C39: the add action ('o') leaves the numeric selected index unchanged while the record
\* vector grows by one; so when the "Accept all" sentinel row was selected before the add,
\* the row selected after the add is the newly appended record and no longer the sentinel,
\* and an immediately following Enter edits that record instead of accepting.
C39_AddKeepsSelectedIndex ==
    [][AddKeepsSelection /\ EnterOnRecordEdits]_vars

\* after an add from the sentinel row, Enter opened the editor on the appended record
C39_Witness ==
    /\ pc = "review"
    /\ review_ops = 1
    /\ selected = Len(strategy_infos) - 1
    /\ origin[selected + 1] = -1
    /\ status_message.some
    /\ status_message.value.fmt \in {"Strategy unchanged", "Editor error: {}"}

\* C40: shortening a strategy for display never aborts the run: for every strategy text
\* (any mix of 1- to 4-byte characters) and every limit, truncate_for_log and the list-row
\* truncation cut the text at a character boundary, so that interactive Phase 1, the add
\* action and the list render complete for every elicited strategy.
C40_TruncationCompletes ==
    truncated.some => truncated.value.ok

=============================================================================
